---- MODULE Spec2Model ----
(***************************************************************************)
(* A model of spotapi: the login flow and its challenge sub-flow           *)
(* (login.py), the captcha vendor adapters (solvers/capmonster.py,         *)
(* spotapi_solvers/capsolver.py) and the persisted-session round trip      *)
(* (Login.save / Login.from_cookies).                                      *)
(*                                                                         *)
(* Strings whose characters matter (URLs, ids) are sequences of            *)
(* one-character strings; every other string is an opaque TLA+ string.     *)
(* Python's None is the string "None".                                     *)
(***************************************************************************)
EXTENDS Naturals, Integers, Sequences, FiniteSets, TLC

VARIABLES
    \* ---- Login (login.py) ----
    pc,             \* position inside the running call, "idle" between calls
    via,            \* "login": login() is running; "direct": LoginChallenge.defeat()
    outcome,        \* how the last call ended: "running", "returned" or the error raised
    calls,          \* number of calls started so far
    identifier,     \* Login.identifier_credentials
    solver,         \* TRUE iff cfg.solver is not None
    logged_in,      \* Login._authorized
    csrf_token,     \* Login.csrf_token
    flow_id,        \* Login.flow_id
    log,            \* network requests and solver calls of the running call, in order
    pwResp,         \* the response of the password POST of the running call
    hle,            \* how handle_login_error ended in the running call
    chal,           \* the LoginChallenge object of the running call
    chalPost,       \* the JSON body of the invoke-challenge POST of the running call
    remember        \* the "remember" cookie the flow puts into the client's jar

loginVars == <<pc, via, outcome, calls, identifier, solver, logged_in, csrf_token,
               flow_id, log, pwResp, hle, chal, chalPost, remember>>

VARIABLES
    \* ---- Capmonster / Capsolver (solvers/capmonster.py, spotapi_solvers/capsolver.py) ----
    spc,            \* position inside solve_captcha: "idle", "create", "poll", "done"
    retries,        \* the adapter's retries attribute
    vendorTask,     \* the taskId of the vendor's createTask answer
    task_id,        \* what _create_task returned
    sent,           \* the requests sent to the vendor, in order
    answers,        \* the vendor's answers to the getTaskResult polls, in order
    sresult,        \* how solve_captcha ended: the token returned or the error raised
    createAnswer    \* the vendor's answer to createTask

solverVars == <<spc, retries, vendorTask, task_id, sent, answers, sresult, createAnswer>>

VARIABLES
    \* ---- Login.save / Login.from_cookies (login.py:95-156) ----
    Lid,            \* identifier_credentials of the Login L that is saved
    Llogged,        \* L.logged_in
    jar,            \* the cookie jar of L's client, in iteration order
    dump,           \* the dump L.save handed to the saver
    R,              \* the Login that from_cookies returned
    Rjar,           \* the cookie jar of the client from_cookies was given
    rlast,          \* the operation performed last
    rout,           \* how it ended: "returned" or the error raised
    rnet,           \* number of network exchanges so far
    savedJar        \* L's jar as it was at the last save (read by the claims only)

restoreVars == <<Lid, Llogged, jar, dump, R, Rjar, rlast, rout, rnet, savedJar>>

VARIABLES
    \* ---- StdClient / TLSClient (http/request.py) ----
    hkind,          \* the client's class: "Std" or "TLS"
    hr,             \* the auto_retries argument the client was built with
    auto_retries,   \* the client's auto_retries attribute
    hpc,            \* position inside a request: "idle", "loop", "done"
    attempts,       \* the outcomes of the transport attempts of the request, in order
    hout,           \* how the request ended: "returned" or the error raised
    hreqs           \* number of requests made through the client

httpVars == <<hkind, hr, auto_retries, hpc, attempts, hout, hreqs>>

VARIABLES
    \* ---- WebsocketStreamer, PlayerStatus, EventManager.__init__, Player ----
    \* ---- (websocket.py, status.py, player.py): one object and its process ----
    wcls,               \* the class being constructed
    wpc,                \* position inside the constructors, then "built" or "failed"
    wout,               \* the error that ended the construction or the last call
    ws,                 \* the socket: "none", "open", "closed"
    closes,             \* number of ws.close() calls
    keep_alive_thread,  \* the keep-alive thread was started
    listener,           \* the receive thread of EventManager was started
    atexit_ws_close,    \* ws.close is registered with atexit
    sigint_handler,     \* handle_interrupt is installed for SIGINT
    initFrame,          \* the first inbound frame
    connection_id,      \* self.connection_id
    registered,         \* register_device has succeeded
    proc,               \* the process: "running" or "exited"
    wlog,               \* the HTTP requests the object sent, in order
    device_arg,         \* the device_id argument of Player(login, device_id)
    snap,               \* _device_dump, with _state and _devices taken from it
    pulls,              \* number of connect-state pulls made
    active_id,          \* Player.active_id
    device_id,          \* Player.device_id once set to the origin device
    lastRead            \* the last property read and what it returned

wsVars == <<wcls, wpc, wout, ws, closes, keep_alive_thread, listener, atexit_ws_close,
            sigint_handler, initFrame, connection_id, registered, proc, wlog,
            device_arg, snap, pulls, active_id, device_id, lastRead>>

VARIABLES
    \* ---- EventManager's registry and receive loop (status.py:217-284) ----
    subscriptions,      \* _subscriptions: event name -> list of registered callables
    asked,              \* the subscribe(event)(func) calls made and how each ended
    frames,             \* the frames _listen received: payloads, and how many it emitted
    invoked,            \* the handler invocations, in order: frame, payload, function
    listen_thread       \* "running", or the exception that ended _listen

evVars == <<subscriptions, asked, frames, invoked, listen_thread>>

VARIABLES
    \* ---- BaseClient's session bootstrap (client.py) ----
    access_token,       \* BaseClient.access_token, Undefined until read
    client_id,          \* BaseClient.client_id, Undefined until read
    bcalls,             \* number of _get_auth_vars calls
    bnet,               \* number of GET requests made by _get_auth_vars
    bout                \* how the last _get_auth_vars ended

clientVars == <<access_token, client_id, bcalls, bnet, bout>>

VARIABLES
    \* ---- BaseClient.get_client_token (client.py) ----
    client_token,       \* BaseClient.client_token, Undefined until granted
    tcalls,             \* number of get_client_token calls
    tanswer,            \* the answer to the last token exchange
    tout                \* how the last get_client_token ended

mgrVars == <<client_token, tcalls, tanswer, tout>>

VARIABLES
    \* ---- the proof secret cache and generate_totp (client.py) ----
    secret_cache,       \* _secret_cache: NoCache or the (version, secret) last fetched
    cache_expiry,       \* _cache_expiry: the time up to which the cache is used
    now,                \* the clock
    fetches,            \* number of GETs of the secret list
    tpc,                \* per caller: "idle", or "fetching" inside a call
    tdone,              \* per caller: number of calls that returned
    tres                \* per caller: what its last call returned

totpVars == <<secret_cache, cache_expiry, now, fetches, tpc, tdone, tres>>

VARIABLES
    \* ---- BaseClient.part_hash and the bundle text (client.py) ----
    raw_hashes,         \* BaseClient.raw_hashes: NoBundle (_Undefined) or the kept bundle text
    served,             \* the entries of the bundle text the server hands out
    hcalls,             \* number of part_hash calls
    hnet,               \* number of bundle downloads
    hres                \* the last part_hash call: name, outcome, hash

hashVars == <<raw_hashes, served, hcalls, hnet, hres>>

VARIABLES
    \* ---- Creator.register and Password.reset (creator.py, password.py) ----
    cflow,              \* the call under way or last made: "none", "register", "reset"
    cpc,                \* its position
    cout,               \* how it ended: "none", "running", "returned", or the exception
    clog,               \* its requests, solver calls and saver calls, in order
    cfg,                \* cfg.solver is not None, cfg.saver is truthy
    ccalls,             \* number of register() / reset() calls
    captcha_token,      \* what the last solve_captcha returned: "token", "empty", None
    raw_response,       \* the create-account answer, None before it
    challenge_url,      \* AccountChallenge.challenge_url, NoUrl before get-session
    completed           \* the complete-creation answer, None before it

creatorVars == <<cflow, cpc, cout, clog, cfg, ccalls, captcha_token, raw_response,
                 challenge_url, completed>>

VARIABLES
    \* ---- parse_json_string (spotapi_utils/strings.py) ----
    ptext,              \* the text b handed to parse_json_string
    pkey,               \* the key name s handed to it
    parsed              \* NotParsed, or how the call ended and what it returned

parseVars == <<ptext, pkey, parsed>>

VARIABLES
    \* ---- the logged-in guards of the session objects ----
    _authorized,        \* Login._authorized, what login.logged_in returns
    effects,            \* the network, socket and saver calls made so far
    objects,            \* the classes of which an object was constructed
    gout,               \* the last operation and how it ended
    gops                \* number of operations attempted

guardVars == <<_authorized, effects, objects, gout, gops>>

VARIABLES
    \* ---- PrivatePlaylist (playlist.py:118-305) ----
    playlist_id,        \* PrivatePlaylist.playlist_id, None when no playlist is set
    _playlist,          \* PrivatePlaylist._playlist
    created,            \* the playlists the server created on a staging POST
    library,            \* the playlists in the user's rootlist on the server
    plog,               \* the requests of the last call, in order
    plout,              \* the last call: operation, outcome, returned URI, staged URI
    plcalls             \* number of calls made on the object

plVars == <<playlist_id, _playlist, created, library, plog, plout, plcalls>>

VARIABLES
    \* ---- the cached properties of PlayerStatus (status.py:52-69, 87-104) ----
    memo                \* per cached property: 0, or the version of the snapshot
                        \* whose value functools.cached_property keeps in __dict__

savedVars == <<memo>>

VARIABLES
    \* ---- the socket lock of WebsocketStreamer (websocket.py:158-177) ----
    rlock,              \* who holds self.rlock: "free", "keep_alive", "listener", "caller"
    sock,               \* the connection: "open" or "closed"
    inbound,            \* frames the server sent that no recv has returned yet
    arrived,            \* number of frames the server sent
    kpc,                \* keep_alive: "sleep", "acquire", "send", "stopped"
    lpc,                \* _listen in get_packet: "acquire", "recv", "stopped"
    upc,                \* another caller of get_packet: "idle", "acquire", "recv"
    gets,               \* number of get_packet calls of that caller
    intervals,          \* number of sleeps of keep_alive that have ended
    due,                \* intervals that ended since the last ping was sent
    pings               \* number of ping frames sent

sockVars == <<rlock, sock, inbound, arrived, kpc, lpc, upc, gets, intervals, due, pings>>

VARIABLES
    \* ---- a dispatch of EventManager, step by step (status.py:251-284) ----
    registry,           \* _subscriptions[event], the live list (empty without the key)
    regkeys,            \* the event names that are keys of _subscriptions
    regcalls,           \* the subscribe and unsubscribe calls of the program
    lt,                 \* _listen: "recv", "payloads", "iter", or what ended it
    cur,                \* the frame get_packet returned last
    nframes,            \* number of frames received
    dj,                 \* index of the payload in hand
    di,                 \* position of the for loop of _emit in the live list
    began,              \* what the program had registered when the dispatch began
    now_invoked,        \* the handlers the dispatch in hand has invoked
    dlog                \* the dispatches that ended

dispVars == <<registry, regkeys, regcalls, lt, cur, nframes, dj, di, began,
              now_invoked, dlog>>

VARIABLES
    \* ---- renew_state, statement by statement (status.py:44-50) ----
    _device_dump,       \* the response self._device_dump comes from (0: None)
    _state,             \* the response self._state comes from
    _devices,           \* the response self._devices comes from
    rnpc,               \* renew_state: "idle", "put", "state", "devices"
    rnout,              \* how the last renew_state ended
    rnanswer,             \* the response of the PUT in hand
    renewals,           \* number of renew_state calls, the number of the response
    seen                \* what another thread read last: dump, state, devices

renewVars == <<_device_dump, _state, _devices, rnpc, rnout, rnanswer, renewals, seen>>

VARIABLES
    \* ---- the client pool of public.py (22-69) ----
    _queue,             \* Pooler._queue: the pooled clients, oldest first
    _lock,              \* who holds Pooler._lock: "free" or a thread
    factory_calls,      \* number of clients the factory made; the newest one's number
    ppc,                \* per thread: "idle", "get", "in_get", "using", "exit", "in_put"
    _client,            \* per thread: ClientContext._client, 0 when it has none
    pexc,               \* per thread: the operation in hand raised
    pout,               \* per thread: how its last operation ended
    pool_ops            \* number of Public operations started

poolVars == <<_queue, _lock, factory_calls, ppc, _client, pexc, pout, pool_ops>>

VARIABLES
    \* ---- the solver instances and their HTTP clients ----
    instances,          \* the solvers constructed: class, api_key, client object
    authenticate,       \* per client object: the instance its authenticate rule is
                        \* bound to (0: None)
    bodies              \* the request bodies sent to the vendor, with the sender

keyVars == <<instances, authenticate, bodies>>

\* the components that run on several threads, or are shared between objects
concVars == <<sockVars, dispVars, renewVars, poolVars, keyVars>>

\* the flows and helpers modelled after the hash discovery
flowVars == <<creatorVars, parseVars, guardVars, plVars, savedVars, concVars>>

\* the components added after the session bootstrap
laterVars == <<mgrVars, totpVars, hashVars, flowVars>>

\* the components modelled after the login flow, the solvers and the restore
moreVars == <<httpVars, wsVars, evVars, clientVars, laterVars>>

vars == <<loginVars, solverVars, restoreVars, moreVars>>

\* what the actions of the login flow leave alone
otherThanLogin == <<solverVars, restoreVars, moreVars>>

\* what the actions of the solver leave alone
otherThanSolver == <<loginVars, restoreVars, moreVars>>

\* what save and from_cookies leave alone
otherThanRestore == <<loginVars, solverVars, moreVars>>

\* what the requests of a client leave alone
otherThanHttp == <<loginVars, solverVars, restoreVars, wsVars, evVars, clientVars, laterVars>>

\* what the realtime channel and the player leave alone
otherThanWs == <<loginVars, solverVars, restoreVars, httpVars, evVars, clientVars, laterVars>>

\* what the event layer leaves alone
otherThanEv == <<loginVars, solverVars, restoreVars, httpVars, wsVars, clientVars, laterVars>>

\* what the session bootstrap leaves alone
otherThanClient == <<loginVars, solverVars, restoreVars, httpVars, wsVars, evVars, laterVars>>

\* the components modelled before the token exchange
earlierVars == <<loginVars, solverVars, restoreVars, httpVars, wsVars, evVars, clientVars>>

\* what the token exchange leaves alone
otherThanMgr == <<earlierVars, totpVars, hashVars, flowVars>>

\* what part_hash leaves alone
otherThanHash == <<earlierVars, mgrVars, totpVars, flowVars>>

\* what the proof generator leaves alone
otherThanTotp == <<earlierVars, mgrVars, hashVars, flowVars>>

\* the components modelled before the account flows
baseVars == <<earlierVars, mgrVars, totpVars, hashVars>>

\* what register and reset leave alone
otherThanCreator == <<baseVars, parseVars, guardVars, plVars, savedVars, concVars>>

\* what parse_json_string leaves alone
otherThanParse == <<baseVars, creatorVars, guardVars, plVars, savedVars, concVars>>

\* what the constructors of the session objects and Login.save leave alone
otherThanGuard == <<baseVars, creatorVars, parseVars, plVars, savedVars, concVars>>

\* what the calls on a PrivatePlaylist leave alone
otherThanPlaylist == <<baseVars, creatorVars, parseVars, guardVars, savedVars, concVars>>

\* what a read of a cached property leaves alone, the realtime channel aside
otherThanWsSaved == <<loginVars, solverVars, restoreVars, httpVars, evVars, clientVars,
                      mgrVars, totpVars, hashVars, creatorVars, parseVars, guardVars,
                      plVars, concVars>>

\* what the threads on the socket leave alone
otherThanSock == <<baseVars, creatorVars, parseVars, guardVars, plVars, savedVars,
                   dispVars, renewVars, poolVars, keyVars>>

\* what a dispatch and the registry calls leave alone
otherThanDisp == <<baseVars, creatorVars, parseVars, guardVars, plVars, savedVars,
                   sockVars, renewVars, poolVars, keyVars>>

\* what renew_state and a reader of the cached fields leave alone
otherThanRenew == <<baseVars, creatorVars, parseVars, guardVars, plVars, savedVars,
                    sockVars, dispVars, poolVars, keyVars>>

\* what the pool and the Public operations leave alone
otherThanPool == <<baseVars, creatorVars, parseVars, guardVars, plVars, savedVars,
                   sockVars, dispVars, renewVars, keyVars>>

\* what the construction and the requests of solver instances leave alone
otherThanKeys == <<baseVars, creatorVars, parseVars, guardVars, plVars, savedVars,
                   sockVars, dispVars, renewVars, poolVars>>

None == "None"

(***************************************************************************)
(* Bounds of the model.                                                    *)
(***************************************************************************)
MaxCalls == 2       \* calls of login() / defeat() on one Login object
MaxIdLen == 2       \* length of the session and challenge ids in a challenge URL
MaxRetries == 3     \* largest retries a solver is built with
MaxCookies == 2     \* cookies the servers set before and after a save
MaxAutoRetries == 2 \* largest auto_retries a client is built with
MaxRequests == 3    \* requests made through one client

(***************************************************************************)
(* Python string operations on sequences of characters.                    *)
(***************************************************************************)
\* s[i:] starts with sep (1-based i)
StartsAt(s, sep, i) ==
    /\ i + Len(sep) - 1 <= Len(s)
    /\ \A k \in 1..Len(sep) : s[i + k - 1] = sep[k]

\* str.find: the first index >= from at which sep occurs, 0 when there is none
Find(s, sep, from) ==
    LET hits == {i \in from..Len(s) : StartsAt(s, sep, i)}
    IN  IF hits = {} THEN 0 ELSE CHOOSE i \in hits : \A j \in hits : i <= j

\* str.split(sep) for a non-empty sep: the pieces between the non-overlapping
\* occurrences of sep, scanned left to right
RECURSIVE split(_, _)
split(s, sep) ==
    LET i == Find(s, sep, 1)
    IN  IF i = 0 THEN <<s>>
        ELSE <<SubSeq(s, 1, i - 1)>> \o split(SubSeq(s, i + Len(sep), Len(s)), sep)

(***************************************************************************)
(* Challenge URLs: https://challenge.spotify.com/c/<SESS>/<CHAL>/<rest>    *)
(***************************************************************************)
Host == <<"h","t","t","p","s",":","/","/","c","h","a","l","l","e","n","g","e",".",
          "s","p","o","t","i","f","y",".","c","o","m">>

IdChars == {"a", "c"}

\* the non-empty strings without "/" of length at most MaxIdLen
Ids == UNION {[1..n -> IdChars] : n \in 1..MaxIdLen}

Rests == {<< >>, <<"r">>}

ChallengeUrl(sess, ch, rest) ==
    Host \o <<"/","c","/">> \o sess \o <<"/">> \o ch \o <<"/">> \o rest

ChallengeUrls == {ChallengeUrl(s, c, r) : s \in Ids, c \in Ids, r \in Rests}

\* the ids a URL was built from (read back from the state to state the claims)
UrlSess(u) == CHOOSE s \in Ids : \E c \in Ids, r \in Rests : u = ChallengeUrl(s, c, r)
UrlChal(u) == CHOOSE c \in Ids : \E r \in Rests : u = ChallengeUrl(UrlSess(u), c, r)

\* login.py:447-448: session_id and challenge_id out of the challenge URL.
\* A [1] on a one-piece split is Python's IndexError.
parse_challenge_url(url) ==
    LET p1 == split(url, <<"c","/">>)
    IN  IF Len(p1) < 2 THEN [err |-> "IndexError", session_id |-> << >>, challenge_id |-> << >>]
        ELSE LET sid == split(p1[2], <<"/">>)[1]
                 p2  == split(url, sid \o <<"/">>)
             IN  IF Len(p2) < 2
                 THEN [err |-> "IndexError", session_id |-> sid, challenge_id |-> << >>]
                 ELSE [err |-> None, session_id |-> sid,
                       challenge_id |-> split(p2[2], <<"/">>)[1]]

(***************************************************************************)
(* What the environment can answer.                                        *)
(***************************************************************************)
\* TLSClient.get / post: a response that is not a failure, a response with
\* resp.fail, or build_request running out of retries (RequestError)
HttpResults == {"ok", "fail", "transport"}

\* the sp_sso_csrf_token cookie of a response; cookies.get gives None when absent
CookieVals == {"t1", "t2", None}

\* flowCtx marker of the login page: present with a value, or absent
FlowVals == {"f1", None}

\* solver.solve_captcha: a token, a falsy answer (None or ""), or an exception
SolveResults == {"token", "empty", "SolverError", "CaptchaException"}

NoUrl == << >>

\* The body of the password POST response: not a JSON object at all, or an
\* object with an optional "result", "error" and "data.redirect_url".
Results == {"ok", "redirect_required", "other", None}
Errors  == {"errorUnknown", "errorInvalidCredentials", "other", None}

Bodies ==
    {[mapping |-> FALSE, result |-> None, error |-> None, url |-> NoUrl]}
    \cup {[mapping |-> TRUE, result |-> r, error |-> e, url |-> NoUrl] :
              r \in Results, e \in Errors}
    \cup {[mapping |-> TRUE, result |-> "redirect_required", error |-> None, url |-> u] :
              u \in ChallengeUrls}

\* the body of the invoke-challenge response
ChalBodies == {"completed", "no_completed", "not_mapping"}

NoResp == [made |-> FALSE, cookie |-> None,
           body |-> [mapping |-> FALSE, result |-> None, error |-> None, url |-> NoUrl]]
NoChal == [made |-> FALSE, challenge_url |-> NoUrl, session_id |-> << >>,
           challenge_id |-> << >>, token |-> None, completed |-> FALSE]
NoPost == [sent |-> FALSE, session_id |-> << >>, challenge_id |-> << >>]

\* Login.__init__ accepts every identifier that is not None (login.py:85-88)
Identifiers == {"u@x", ""}

\* urllib.parse.quote on the identifiers of the model
quote(s) == IF s = "u@x" THEN "u%40x" ELSE s

(***************************************************************************)
(* Login.handle_login_error (login.py:294-326) up to the point where it    *)
(* returns, raises, or hands over to LoginChallenge.                       *)
(***************************************************************************)
\* (mutant) an "error" answer falls through the match and returns
handle_login_error_falls_through(json) ==
    IF ~json.mapping THEN "AttributeError"
    ELSE IF json.result = "ok" THEN "return"
    ELSE IF json.result = "redirect_required"
         THEN IF json.url = NoUrl THEN "KeyError" ELSE "challenge"
    ELSE IF json.error = None THEN "LoginError"
    ELSE "return"

\* (mutant) every answer that is a mapping starts a challenge
handle_login_error_challenges(json) ==
    IF ~json.mapping THEN "AttributeError"
    ELSE "challenge"

handle_login_error(json) ==
    IF ~json.mapping THEN "AttributeError"            \* json_data.get on a str/None
    ELSE IF json.result = "ok" THEN "return"
    ELSE IF json.result = "redirect_required"
         THEN IF json.url = NoUrl THEN "KeyError"     \* dump["data"]["redirect_url"]
              ELSE "challenge"
    ELSE IF json.error = None THEN "LoginError"       \* Unexpected response format
    ELSE "LoginError"                                 \* errorUnknown / Invalid / Unforeseen

(***************************************************************************)
(* The calls.                                                              *)
(***************************************************************************)
\* a task id is an integer (Capmonster) or a string (Capsolver) in the vendor's JSON
NoTask == [int |-> FALSE, text |-> None]
NoCreate == [made |-> FALSE, http |-> None, errorId |-> 0, errField |-> FALSE]
TaskIds == {[int |-> TRUE, text |-> "7"], [int |-> FALSE, text |-> "uuid"]}

\* Python's str() on a task id
str(t) == [int |-> FALSE, text |-> t.text]

\* the solver adapter before any solve_captcha call, built with retries r
SolverBuilt(r) ==
    /\ spc = "idle"
    /\ retries = r
    /\ vendorTask = NoTask
    /\ task_id = NoTask
    /\ sent = << >>
    /\ answers = << >>
    /\ sresult = [kind |-> "none", value |-> None]
    /\ createAnswer = NoCreate

\* L before it is logged in, its client's jar empty; rj is the jar of the
\* client a later from_cookies may be given
RestoreBuilt(id, rj) ==
    /\ Lid = id
    /\ Llogged = FALSE
    /\ jar = << >>
    /\ dump = [made |-> FALSE, identifier |-> None, password |-> None,
               hasCookies |-> FALSE, cookies |-> << >>]
    /\ R = [made |-> FALSE, identifier |-> None, password |-> None,
            logged_in |-> FALSE, ofSave |-> FALSE]
    /\ Rjar = rj
    /\ rlast = "init"
    /\ rout = "none"
    /\ rnet = 0
    /\ savedJar = << >>

\* login.py:80-93: a Login after construction
LoginBuilt(id, hasSolver) ==
    /\ pc = "idle"
    /\ via = "login"
    /\ outcome = "none"
    /\ calls = 0
    /\ identifier = id
    /\ solver = hasSolver
    /\ logged_in = FALSE
    /\ csrf_token = None
    /\ flow_id = None
    /\ log = << >>
    /\ pwResp = NoResp
    /\ hle = "none"
    /\ chal = NoChal
    /\ chalPost = NoPost
    /\ remember = None

\* (mutant) the argument is stored as it is
stored_retries_plain(r) == r

\* request.py:39 and 125: self.auto_retries = auto_retries + 1
stored_retries(r) == r + 1

\* request.py:33-41 and 112-128: a client after construction
HttpBuilt(kind, r) ==
    /\ hkind = kind
    /\ hr = r
    /\ auto_retries = stored_retries(r)
    /\ hpc = "idle"
    /\ attempts = << >>
    /\ hout = "none"
    /\ hreqs = 0

NoSnap == [made |-> FALSE, ver |-> 0, active |-> None, origin |-> "absent",
           has_state |-> FALSE, has_devices |-> FALSE]
NoRead == [prop |-> None, out |-> "none", ver |-> 0, before |-> 0]

\* the process before cls(login, ...) is called; arg: Player's device_id argument
WsBuilt(cls, arg) ==
    /\ wcls = cls
    /\ wpc = "new"
    /\ wout = "none"
    /\ ws = "none"
    /\ closes = 0
    /\ keep_alive_thread = FALSE
    /\ listener = FALSE
    /\ atexit_ws_close = FALSE
    /\ sigint_handler = FALSE
    /\ initFrame = None
    /\ connection_id = None
    /\ registered = FALSE
    /\ proc = "running"
    /\ wlog = << >>
    /\ device_arg = arg
    /\ snap = NoSnap
    /\ pulls = 0
    /\ active_id = None
    /\ device_id = None
    /\ lastRead = NoRead

\* the event names and the handler functions of the program
Events == {"e1", "e2"}
Handlers == {"f", "g"}

\* status.py:212: self._subscriptions = {}; nothing asked, nothing received
EvBuilt ==
    /\ subscriptions = [e \in Events |-> << >>]
    /\ asked = << >>
    /\ frames = << >>
    /\ invoked = << >>
    /\ listen_thread = "running"

\* the value of a credential that was not read yet (_Undefined)
Undefined == "_Undefined"

\* a BaseClient whose access_token and client_id are at and cid
ClientBuilt(at, cid) ==
    /\ access_token = at
    /\ client_id = cid
    /\ bcalls = 0
    /\ bnet = 0
    /\ bout = "none"

\* the answer record before any token exchange
NoAnswer == [fail |-> FALSE, mapping |-> FALSE, response_type |-> None, token |-> None]

\* a BaseClient without client token
MgrBuilt ==
    /\ client_token = Undefined
    /\ tcalls = 0
    /\ tanswer = NoAnswer
    /\ tout = "none"

\* the threads that ask for a proof
Callers == {1, 2}

NoCache == [version |-> None, secret |-> << >>]
NoProof == [version |-> None, secret |-> << >>, from |-> "none",
            proof |-> << >>, raised |-> FALSE]

\* the module client.py after import: nothing cached
TotpBuilt ==
    /\ secret_cache = NoCache
    /\ cache_expiry = 0
    /\ now = 0
    /\ fetches = 0
    /\ tpc = [c \in Callers |-> "idle"]
    /\ tdone = [c \in Callers |-> 0]
    /\ tres = [c \in Callers |-> NoProof]

NoHash == [name |-> None, out |-> "none", hash |-> None]

\* raw_hashes while it is _Undefined, and once it holds the text
NoBundle == [kept |-> FALSE, text |-> << >>]
Kept(bundle) == [kept |-> TRUE, text |-> bundle]

\* a BaseClient whose raw_hashes is raw, in front of a server handing out bundle
HashBuilt(raw, bundle) ==
    /\ raw_hashes = raw
    /\ served = bundle
    /\ hcalls = 0
    /\ hnet = 0
    /\ hres = NoHash

\* the components of laterVars before their first call
\* a Creator / Password object before any call, built on the configuration c
CreatorBuilt(c) ==
    /\ cflow = "none"
    /\ cpc = "idle"
    /\ cout = "none"
    /\ clog = << >>
    /\ cfg = c
    /\ ccalls = 0
    /\ captcha_token = None
    /\ raw_response = None
    /\ challenge_url = NoUrl
    /\ completed = None

NotParsed == [out |-> "none", value |-> << >>]

\* a text and a key before the call
ParseBuilt(text, k) ==
    /\ ptext = text
    /\ pkey = k
    /\ parsed = NotParsed

NoOp == [op |-> "none", out |-> "none"]

\* a Login with _authorized = a and nothing constructed on it yet
GuardBuilt(a) ==
    /\ _authorized = a
    /\ effects = << >>
    /\ objects = {}
    /\ gout = NoOp
    /\ gops = 0

NoCall == [op |-> "none", out |-> "none", uri |-> None, staged |-> None]

\* playlist.py:132-143: PrivatePlaylist(login) on a server whose rootlist
\* holds the playlists lib
PlaylistBuilt(lib) ==
    /\ playlist_id = None
    /\ _playlist = FALSE
    /\ created = {}
    /\ library = lib
    /\ plog = << >>
    /\ plout = NoCall
    /\ plcalls = 0

SavedProperties == {"saved_state", "saved_device_ids"}

\* nothing kept by a cached property yet
SavedBuilt == memo = [p \in SavedProperties |-> 0]

\* websocket.py:71-76, status.py:214-215: the lock is free, keep_alive sleeps
\* and _listen is about to take the lock
SockBuilt ==
    /\ rlock = "free"
    /\ sock = "open"
    /\ inbound = 0
    /\ arrived = 0
    /\ kpc = "sleep"
    /\ lpc = "acquire"
    /\ upc = "idle"
    /\ gets = 0
    /\ intervals = 0
    /\ due = 0
    /\ pings = 0

NoFrame == [has |-> FALSE, payloads |-> << >>]

\* status.py:212-215: an empty registry, _listen about to call get_packet
DispBuilt ==
    /\ registry = [e \in Events |-> << >>]
    /\ regkeys = {}
    /\ regcalls = << >>
    /\ lt = "recv"
    /\ cur = NoFrame
    /\ nframes = 0
    /\ dj = 0
    /\ di = 0
    /\ began = << >>
    /\ now_invoked = << >>
    /\ dlog = << >>

NoRenewAnswer == [http |-> "none", body |-> "none", player_state |-> FALSE, devices |-> FALSE]

\* status.py:33-35: the three fields are None
RenewBuilt ==
    /\ _device_dump = 0
    /\ _state = 0
    /\ _devices = 0
    /\ rnpc = "idle"
    /\ rnout = "none"
    /\ rnanswer = NoRenewAnswer
    /\ renewals = 0
    /\ seen = <<0, 0, 0>>

\* the threads that run Public operations
Threads == {"t1", "t2"}

\* public.py:56-58: the pool is empty and nobody holds its lock
PoolBuilt ==
    /\ _queue = << >>
    /\ _lock = "free"
    /\ factory_calls = 0
    /\ ppc = [t \in Threads |-> "idle"]
    /\ _client = [t \in Threads |-> 0]
    /\ pexc = [t \in Threads |-> FALSE]
    /\ pout = [t \in Threads |-> "none"]
    /\ pool_ops = 0

\* the client objects: the default argument of Capmonster.__init__
\* (capmonster.py:34), that of Capsolver.__init__ (capsolver.py:35), both
\* made once when the class body runs, and the clients callers pass
DefaultClient(cls) == IF cls = "Capmonster" THEN 1 ELSE 2
OwnClient(n) == 2 + n

\* request.py:32-36: authenticate is None on a new StdClient
KeysBuilt ==
    /\ instances = << >>
    /\ authenticate = [c \in {} |-> 0]
    /\ bodies = << >>

ConcBuilt == SockBuilt /\ DispBuilt /\ RenewBuilt /\ PoolBuilt /\ KeysBuilt

FlowBuilt ==
    /\ CreatorBuilt([solver |-> TRUE, saver |-> TRUE])
    /\ ParseBuilt(<< >>, <<"k">>)
    /\ GuardBuilt(FALSE)
    /\ PlaylistBuilt({})
    /\ SavedBuilt
    /\ ConcBuilt

LaterBuilt == MgrBuilt /\ TotpBuilt /\ HashBuilt(NoBundle, << >>) /\ FlowBuilt

\* the components of moreVars before their first call
MoreBuilt ==
    /\ HttpBuilt("Std", 0)
    /\ WsBuilt("WebsocketStreamer", None)
    /\ EvBuilt
    /\ ClientBuilt(Undefined, Undefined)
    /\ LaterBuilt

Init ==
    /\ \E id \in Identifiers, hasSolver \in BOOLEAN : LoginBuilt(id, hasSolver)
    /\ SolverBuilt(0)
    /\ RestoreBuilt("u@x", << >>)
    /\ MoreBuilt

\* the running call ends by raising kind
Raise(kind) ==
    /\ pc' = "idle"
    /\ outcome' = kind

\* what a failed request raises: TLSClient.get raises fail_exception (LoginError,
\* login.py:90) on resp.fail, the callers raise LoginError on resp.fail after a
\* POST, and build_request raises RequestError when its retries run out
HttpError(r) == IF r = "fail" THEN "LoginError" ELSE "RequestError"

\* (mutant) the already-logged-in check is missing
login_rejects_never == FALSE

\* login.py:339-340: login() refuses to run on a logged-in session
login_rejects == logged_in

\* (mutant) csrf_token keeps the value of the non-OTC GET
submit_password_csrf_stale(old, cookie) == old

\* login.py:289: csrf_token after the password POST
submit_password_csrf(old, cookie) == cookie

\* login.py:339-343: login() entered
login ==
    /\ pc = "idle"
    /\ calls < MaxCalls
    /\ calls' = calls + 1
    /\ via' = "login"
    /\ log' = << >>
    /\ pwResp' = NoResp
    /\ hle' = "none"
    /\ chal' = NoChal
    /\ chalPost' = NoPost
    /\ IF login_rejects
       THEN Raise("LoginError")                             \* User already logged in
       ELSE pc' = "get_session" /\ outcome' = "running"
    /\ UNCHANGED <<identifier, solver, logged_in, csrf_token, flow_id, remember>>
    /\ UNCHANGED otherThanLogin

\* login.py:238-248: _get_session up to its first sub-call: the login page GET,
\* csrf_token and flow_id out of it, the "remember" cookie
_get_session ==
    /\ pc = "get_session"
    /\ log' = Append(log, "GET login")
    /\ \E r \in HttpResults, c \in CookieVals, f \in FlowVals :
          IF r # "ok"
          THEN Raise(HttpError(r)) /\ UNCHANGED <<csrf_token, flow_id, remember>>
          ELSE /\ csrf_token' = c
               /\ IF f = None
                  THEN \* parse_json_string raises ValueError (strings.py:70-72)
                       Raise("ValueError") /\ UNCHANGED <<flow_id, remember>>
                  ELSE /\ flow_id' = f
                       /\ remember' = quote(identifier)
                       /\ pc' = "sync1"
                       /\ UNCHANGED outcome
    /\ UNCHANGED <<via, calls, identifier, solver, logged_in, pwResp, hle, chal, chalPost>>
    /\ UNCHANGED otherThanLogin

\* login.py:206-210: _get_add_cookie() over SYNC_URLS, one GET per URL
_get_add_cookie_sync ==
    /\ pc \in {"sync1", "sync2"}
    /\ log' = Append(log, "GET sync")
    /\ \E r \in HttpResults :
          IF r # "ok"
          THEN Raise(HttpError(r))
          ELSE pc' = (IF pc = "sync1" THEN "sync2" ELSE "non_otc") /\ UNCHANGED outcome
    /\ UNCHANGED <<via, calls, identifier, solver, logged_in, csrf_token, flow_id,
                   pwResp, hle, chal, chalPost, remember>>
    /\ UNCHANGED otherThanLogin

\* login.py:219-229: _set_non_otc
_set_non_otc ==
    /\ pc = "non_otc"
    /\ log' = Append(log, "GET non_otc")
    /\ \E r \in HttpResults, c \in CookieVals :
          IF r # "ok"
          THEN Raise(HttpError(r)) /\ UNCHANGED csrf_token
          ELSE csrf_token' = c /\ pc' = "solve" /\ UNCHANGED outcome
    /\ UNCHANGED <<via, calls, identifier, solver, logged_in, flow_id,
                   pwResp, hle, chal, chalPost, remember>>
    /\ UNCHANGED otherThanLogin

\* login.py:346-356: the solver check and the v3 captcha
solve_captcha_v3 ==
    /\ pc = "solve"
    /\ IF ~solver
       THEN Raise("LoginError") /\ UNCHANGED log            \* Solver not set
       ELSE /\ log' = Append(log, "SOLVE v3")
            /\ \E s \in SolveResults :
                  CASE s = "token" -> pc' = "submit_password" /\ UNCHANGED outcome
                    [] s = "empty" -> Raise("LoginError")   \* Could not solve captcha
                    [] OTHER       -> Raise(s)
    /\ UNCHANGED <<via, calls, identifier, solver, logged_in, csrf_token, flow_id,
                   pwResp, hle, chal, chalPost, remember>>
    /\ UNCHANGED otherThanLogin

\* login.py:280-291 with handle_login_error (294-326) and LoginChallenge.__init__
\* (406-412): the password POST, csrf_token from its cookies, the dispatch on
\* the body, and logged_in on a plain "ok"
_submit_password ==
    /\ pc = "submit_password"
    /\ log' = Append(log, "POST password")
    /\ \E r \in HttpResults, c \in CookieVals, b \in Bodies :
          IF r # "ok"
          THEN /\ Raise(HttpError(r))
               /\ UNCHANGED <<csrf_token, pwResp, hle, chal, logged_in>>
          ELSE /\ csrf_token' = submit_password_csrf(csrf_token, c)
               /\ pwResp' = [made |-> TRUE, cookie |-> c, body |-> b]
               /\ LET d == handle_login_error(b)
                  IN  CASE d = "return" ->
                             /\ hle' = "returned"
                             /\ logged_in' = TRUE
                             /\ pc' = "final_cookie"
                             /\ UNCHANGED <<outcome, chal>>
                        [] d = "challenge" ->
                             /\ hle' = "running"
                             /\ chal' = [NoChal EXCEPT !.made = TRUE, !.challenge_url = b.url]
                             /\ pc' = "get_challenge"
                             /\ UNCHANGED <<outcome, logged_in>>
                        [] OTHER ->
                             /\ hle' = d
                             /\ Raise(d)
                             /\ UNCHANGED <<chal, logged_in>>
    /\ UNCHANGED <<via, calls, identifier, solver, flow_id, chalPost, remember>>
    /\ UNCHANGED otherThanLogin

\* an exception inside the challenge sub-flow leaves handle_login_error too
RaiseInChallenge(kind) ==
    /\ Raise(kind)
    /\ hle' = IF via = "login" THEN kind ELSE hle

\* A caller other than login() starts a challenge sub-flow of its own:
\* LoginChallenge(login, dump).defeat()
defeat ==
    /\ pc = "idle"
    /\ calls < MaxCalls
    /\ calls' = calls + 1
    /\ via' = "direct"
    /\ log' = << >>
    /\ pwResp' = NoResp
    /\ hle' = "none"
    /\ chal' = NoChal
    /\ chalPost' = NoPost
    /\ pc' = "challenge_init"
    /\ outcome' = "running"
    /\ UNCHANGED <<identifier, solver, logged_in, csrf_token, flow_id, remember>>
    /\ UNCHANGED otherThanLogin

\* login.py:406-412: LoginChallenge.__init__ on the caller's dump
LoginChallenge_init ==
    /\ pc = "challenge_init"
    /\ \E u \in ChallengeUrls \cup {NoUrl} :
          IF u = NoUrl
          THEN Raise("KeyError") /\ UNCHANGED chal          \* dump["data"]["redirect_url"]
          ELSE /\ chal' = [NoChal EXCEPT !.made = TRUE, !.challenge_url = u]
               /\ pc' = "get_challenge"
               /\ UNCHANGED outcome
    /\ UNCHANGED <<via, calls, identifier, solver, logged_in, csrf_token, flow_id,
                   log, pwResp, hle, chalPost, remember>>
    /\ UNCHANGED otherThanLogin

\* login.py:421-423: _get_challenge
_get_challenge ==
    /\ pc = "get_challenge"
    /\ log' = Append(log, "GET challenge")
    /\ \E r \in HttpResults :
          IF r # "ok"
          THEN RaiseInChallenge(HttpError(r))
          ELSE pc' = "construct_payload" /\ UNCHANGED <<outcome, hle>>
    /\ UNCHANGED <<via, calls, identifier, solver, logged_in, csrf_token, flow_id,
                   pwResp, chal, chalPost, remember>>
    /\ UNCHANGED otherThanLogin

\* login.py:435-460: _construct_challenge_payload: the solver check, the v2
\* captcha, session_id and challenge_id out of the challenge URL
_construct_challenge_payload ==
    /\ pc = "construct_payload"
    /\ IF ~solver
       THEN RaiseInChallenge("LoginError") /\ UNCHANGED <<log, chal>>   \* Solver not set
       ELSE /\ log' = Append(log, "SOLVE v2")
            /\ \E s \in SolveResults :
                  CASE s = "token" ->
                         LET p == parse_challenge_url(chal.challenge_url)
                         IN  IF p.err # None
                             THEN /\ RaiseInChallenge(p.err)
                                  /\ chal' = [chal EXCEPT !.session_id = p.session_id]
                             ELSE /\ chal' = [chal EXCEPT !.session_id = p.session_id,
                                                          !.challenge_id = p.challenge_id,
                                                          !.token = "token"]
                                  /\ pc' = "submit_challenge"
                                  /\ UNCHANGED <<outcome, hle>>
                    [] s = "empty" -> RaiseInChallenge("LoginError") /\ UNCHANGED chal
                    [] OTHER       -> RaiseInChallenge(s) /\ UNCHANGED chal
    /\ UNCHANGED <<via, calls, identifier, solver, logged_in, csrf_token, flow_id,
                   pwResp, chalPost, remember>>
    /\ UNCHANGED otherThanLogin

\* login.py:470-478: the invoke-challenge POST and the reading of its answer
_submit_challenge ==
    /\ pc = "submit_challenge"
    /\ log' = Append(log, "POST invoke")
    /\ chalPost' = [sent |-> TRUE, session_id |-> chal.session_id,
                    challenge_id |-> chal.challenge_id]
    /\ \E r \in HttpResults, b \in ChalBodies :
          IF r # "ok"
          THEN RaiseInChallenge(HttpError(r)) /\ UNCHANGED chal
          ELSE CASE b = "not_mapping"  -> RaiseInChallenge("LoginError") /\ UNCHANGED chal
                 [] b = "no_completed" -> RaiseInChallenge("KeyError") /\ UNCHANGED chal
                 [] OTHER ->
                      /\ chal' = [chal EXCEPT !.completed = TRUE]
                      /\ pc' = "complete_challenge"
                      /\ UNCHANGED <<outcome, hle>>
    /\ UNCHANGED <<via, calls, identifier, solver, logged_in, csrf_token, flow_id,
                   pwResp, remember>>
    /\ UNCHANGED otherThanLogin

\* login.py:487-494, then the return through defeat (510) and handle_login_error
\* (311-312) to _submit_password's logged_in = True (291)
_complete_challenge ==
    /\ pc = "complete_challenge"
    /\ log' = Append(log, "GET completed")
    /\ \E r \in HttpResults :
          IF r # "ok"
          THEN RaiseInChallenge(HttpError(r)) /\ UNCHANGED logged_in
          ELSE IF via = "login"
               THEN /\ hle' = "returned"
                    /\ logged_in' = TRUE
                    /\ pc' = "final_cookie"
                    /\ UNCHANGED outcome
               ELSE /\ pc' = "idle"
                    /\ outcome' = "returned"
                    /\ UNCHANGED <<hle, logged_in>>
    /\ UNCHANGED <<via, calls, identifier, solver, csrf_token, flow_id,
                   pwResp, chal, chalPost, remember>>
    /\ UNCHANGED otherThanLogin

\* login.py:292 and 206-210: _get_add_cookie(open.spotify.com/?flow_ctx=...),
\* after which _submit_password and login return
_get_add_cookie_flow ==
    /\ pc = "final_cookie"
    /\ log' = Append(log, "GET flow_ctx")
    /\ \E r \in HttpResults :
          IF r # "ok"
          THEN Raise(HttpError(r))
          ELSE pc' = "idle" /\ outcome' = "returned"
    /\ UNCHANGED <<via, calls, identifier, solver, logged_in, csrf_token, flow_id,
                   pwResp, hle, chal, chalPost, remember>>
    /\ UNCHANGED otherThanLogin

NextLogin ==
    \/ login
    \/ _get_session
    \/ _get_add_cookie_sync
    \/ _set_non_otc
    \/ solve_captcha_v3
    \/ _submit_password
    \/ defeat
    \/ LoginChallenge_init
    \/ _get_challenge
    \/ _construct_challenge_payload
    \/ _submit_challenge
    \/ _complete_challenge
    \/ _get_add_cookie_flow

Spec == Init /\ [][NextLogin]_vars

(***************************************************************************)
(* Claims about the login flow, checked under Spec.                        *)
(***************************************************************************)
ChallengeRequests == {"GET challenge", "SOLVE v2", "POST invoke", "GET completed"}

LoginEnded == pc = "idle" /\ via = "login" /\ outcome \notin {"none", "running"}

\* C1: when login() returns after a password POST answered {"result":"ok"},
\* logged_in is true and csrf_token is the sp_sso_csrf_token cookie of the
\* password POST's response.
C1_OkLogin ==
    (LoginEnded /\ outcome = "returned" /\ pwResp.body.result = "ok")
        => (logged_in /\ csrf_token = pwResp.cookie)

C1_Witness ==
    /\ LoginEnded /\ outcome = "returned" /\ pwResp.body.result = "ok"
    /\ log = <<"GET login", "GET sync", "GET sync", "GET non_otc", "SOLVE v3",
               "POST password", "GET flow_ctx">>
    /\ csrf_token = "t2"

\* C2: whenever a login() that got past its entry check ends by raising,
\* logged_in is false.
C2_RaisedMeansLoggedOut ==
    (LoginEnded /\ outcome # "returned" /\ log # << >>) => ~logged_in

\* C3: login() on a logged-in session raises LoginError at once: no request,
\* no captcha solve, and logged_in, csrf_token and flow_id keep their values.
C3_AlreadyLoggedIn ==
    [][(pc = "idle" /\ calls' # calls /\ via' = "login" /\ logged_in)
          => /\ pc' = "idle"
             /\ outcome' = "LoginError"
             /\ log' = << >>
             /\ logged_in' = logged_in
             /\ csrf_token' = csrf_token
             /\ flow_id' = flow_id]_vars

C3_Witness ==
    /\ LoginEnded /\ outcome = "LoginError" /\ log = << >>
    /\ logged_in /\ csrf_token = "t1" /\ flow_id = "f1"

\* C4: for every challenge URL .../c/<SESS>/<CHAL>/..., the URL yields its
\* two ids, the invoke-challenge POST carries session_id = SESS and
\* challenge_id = CHAL, and a login whose challenge completed is logged in.
C4_ChallengeIds ==
    /\ (chal.made /\ pc = "idle") => outcome # "IndexError"
    /\ chalPost.sent =>
          /\ chalPost.session_id = UrlSess(chal.challenge_url)
          /\ chalPost.challenge_id = UrlChal(chal.challenge_url)
    /\ (via = "login" /\ chal.completed /\ hle = "returned") => logged_in

\* C5: a password POST answered {"error":"errorInvalidCredentials"} makes
\* login raise LoginError with logged_in false and without any request of
\* the challenge sub-flow.
C5_InvalidCredentials ==
    (via = "login" /\ pwResp.made /\ pwResp.body.mapping
       /\ pwResp.body.result \notin {"ok", "redirect_required"}
       /\ pwResp.body.error = "errorInvalidCredentials")
        => /\ pc = "idle"
           /\ outcome = "LoginError"
           /\ ~logged_in
           /\ ~chal.made
           /\ \A i \in 1..Len(log) : log[i] \notin ChallengeRequests

C5_Witness ==
    /\ LoginEnded /\ outcome = "LoginError"
    /\ pwResp.made /\ pwResp.body.mapping /\ pwResp.body.result = None
    /\ pwResp.body.error = "errorInvalidCredentials"
    /\ log[Len(log)] = "POST password"

\* C6: whatever the password POST answers, handle_login_error returns (only
\* on "ok", or on "redirect_required" with the challenge completed) or raises
\* LoginError; the exceptions of the transport and of the solver aside, no
\* answer makes it end otherwise.
C6_OnlyLoginError ==
    /\ hle \in {"none", "running", "returned", "LoginError",
                "RequestError", "SolverError", "CaptchaException"}
    /\ hle = "returned" =>
          \/ pwResp.body.result = "ok"
          \/ pwResp.body.result = "redirect_required" /\ chal.completed

\* C8: with no solver configured, a challenge sub-flow ends before it has
\* made any network request.
C8_NoSolverNoRequest ==
    ~solver => \A i \in 1..Len(log) : log[i] \notin ChallengeRequests

\* login.py:238-249, 346-362: the steps of login() up to the password POST
LoginOrder ==
    <<"GET login", "GET sync", "GET sync", "GET non_otc", "SOLVE v3", "POST password">>

\* login.py:508-510 with 435-460: the steps of LoginChallenge.defeat()
ChallengeOrder == <<"GET challenge", "SOLVE v2", "POST invoke", "GET completed">>

IsPrefix(s, t) == Len(s) <= Len(t) /\ SubSeq(t, 1, Len(s)) = s

\* C31: in every run of login() the steps are taken in the order login-page
\* GET, sync GETs, non-OTC GET, captcha solve, password POST, then (only on
\* redirect_required) challenge GET, (its captcha solve,) invoke-challenge
\* POST, completion GET, then the cookie GET after a successful submission;
\* and a step is taken only while the run is going on, which it no longer is
\* once a step has failed.
C31_StepOrder ==
    /\ [](via = "login" =>
            /\ \/ IsPrefix(log, LoginOrder \o <<"GET flow_ctx">>)
               \/ /\ pwResp.body.result = "redirect_required"
                  /\ IsPrefix(log, LoginOrder \o ChallengeOrder \o <<"GET flow_ctx">>)
            /\ (log # << >> /\ log[Len(log)] = "GET flow_ctx") => hle = "returned"
            /\ (outcome \notin {"none", "running", "returned"}) => pc = "idle")
    /\ [][(via' = "login" /\ log' # log /\ log' # << >>)
             => /\ outcome = "running"
                /\ log' = Append(log, log'[Len(log')])]_vars

C31_Witness ==
    /\ LoginEnded /\ outcome = "returned"
    /\ log = LoginOrder \o ChallengeOrder \o <<"GET flow_ctx">>


(***************************************************************************)
(* The captcha vendor adapters.  Capmonster and Capsolver share the        *)
(* protocol: one createTask, then getTaskResult polls.                     *)
(***************************************************************************)
\* the vendor's answer to a getTaskResult poll
\* errField: the answer carries the field the adapter reads for the error
\* text (errorCode for Capmonster, errorDescription for Capsolver)
PollAnswers ==
    {[http |-> h, errorId |-> 0, errField |-> FALSE, status |-> None, solution |-> None] :
        h \in {"fail", "transport"}}
    \cup {[http |-> "ok", errorId |-> 1, errField |-> f, status |-> st, solution |-> None] :
        f \in BOOLEAN, st \in {None, "ready"}}
    \cup {[http |-> "ok", errorId |-> 0, errField |-> FALSE, status |-> st, solution |-> None] :
        st \in {"idle", "processing"}}
    \cup {[http |-> "ok", errorId |-> 0, errField |-> FALSE, status |-> "ready", solution |-> g] :
        g \in {"g1", "g2", None}}

\* (mutant) the vendor's error code is not looked at
vendor_error_ignored(resp) == FALSE

\* capmonster.py:147 and 178, capsolver.py:103 and 123: int(resp["errorId"]) != 0
vendor_error(resp) == resp.errorId # 0

\* capmonster.py:148 and 179-181, capsolver.py:104-106 and 124-126: the raise,
\* whose argument reads the error text out of the answer
vendor_error_raised(resp) == IF resp.errField THEN "CaptchaException" ELSE "KeyError"

\* (mutant) one poll too many
budget_left_off_by_one(n, r) == n <= r

\* capmonster.py:166, capsolver.py:112: for _ in range(retries), after n polls
budget_left(n, r) == n < r

\* (mutant) the status is compared with another word
is_ready_other_word(a) == a.status = "done"

\* capmonster.py:183, capsolver.py:128
is_ready(a) == a.status = "ready"

SolverEnds(kind, value) ==
    /\ spc' = "done"
    /\ sresult' = [kind |-> kind, value |-> value]

\* the loop of _harvest_task after n polls: one more poll, or SolverError
\* (capmonster.py:166 and 188, capsolver.py:112 and 133)
HarvestOn(n) ==
    IF budget_left(n, retries)
    THEN spc' = "poll" /\ UNCHANGED sresult
    ELSE SolverEnds("SolverError", None)

InitSolver ==
    /\ LoginBuilt("u@x", TRUE)
    /\ \E r \in 0..MaxRetries : SolverBuilt(r)
    /\ RestoreBuilt("u@x", << >>)
    /\ MoreBuilt

\* capmonster.py:212, capsolver.py:142: solve_captcha entered
solve_captcha ==
    /\ spc = "idle"
    /\ spc' = "create"
    /\ UNCHANGED <<retries, vendorTask, task_id, sent, answers, sresult, createAnswer>>
    /\ UNCHANGED otherThanSolver

\* capmonster.py:141-150, capsolver.py:97-108: _create_task's request and
\* the reading of its answer, up to the first poll
_create_task ==
    /\ spc = "create"
    /\ sent' = Append(sent, [endpoint |-> "createTask", taskId |-> NoTask])
    /\ \E h \in HttpResults, e \in {0, 1}, f \in BOOLEAN, t \in TaskIds :
          /\ (h # "ok" => e = 0) /\ (e = 0 => ~f)
          /\ createAnswer' = [made |-> TRUE, http |-> h, errorId |-> e, errField |-> f]
          /\ CASE h = "transport" ->
                 SolverEnds("RequestError", None) /\ UNCHANGED <<vendorTask, task_id>>
            [] h = "fail" ->
                 SolverEnds("CaptchaException", None) /\ UNCHANGED <<vendorTask, task_id>>
            [] vendor_error(createAnswer') ->
                 /\ SolverEnds(vendor_error_raised(createAnswer'), None)
                 /\ UNCHANGED <<vendorTask, task_id>>
            [] OTHER ->
                 /\ vendorTask' = t
                 /\ task_id' = str(t)
                 /\ HarvestOn(0)
    /\ UNCHANGED <<retries, answers>>
    /\ UNCHANGED otherThanSolver

\* capmonster.py:167-186, capsolver.py:113-131: one turn of _harvest_task's
\* loop: the poll, the reading of its answer, the sleep
_harvest_task ==
    /\ spc = "poll"
    /\ sent' = Append(sent, [endpoint |-> "getTaskResult", taskId |-> task_id])
    /\ \E a \in PollAnswers :
          /\ answers' = Append(answers, a)
          /\ CASE a.http = "transport" -> SolverEnds("RequestError", None)
               [] a.http = "fail" -> SolverEnds("CaptchaException", None)
               [] vendor_error(a) -> SolverEnds(vendor_error_raised(a), None)
               [] is_ready(a) ->
                    IF a.solution = None
                    THEN SolverEnds("KeyError", None)       \* resp["solution"][...]
                    ELSE SolverEnds("returned", a.solution)
               [] OTHER -> HarvestOn(Len(answers'))
    /\ UNCHANGED <<retries, vendorTask, task_id, createAnswer>>
    /\ UNCHANGED otherThanSolver

NextSolver ==
    \/ solve_captcha
    \/ _create_task
    \/ _harvest_task

SpecSolver == InitSolver /\ [][NextSolver]_vars

(***************************************************************************)
(* Claims about the vendor adapters, checked under SpecSolver.             *)
(***************************************************************************)
\* an answer that is neither a failure nor "ready"
Pending(a) == a.http = "ok" /\ a.errorId = 0 /\ a.status # "ready"

AllPending(n) == \A m \in 1..n : Pending(answers[m])

PollOf(t) == [endpoint |-> "getTaskResult", taskId |-> t]

\* C9: when the first N-1 polls are answered not ready and poll N is answered
\* "ready" with a solution, N is within retries, solve_captcha has ended
\* returning that solution, and it sent one createTask followed by exactly N
\* polls, each with the task id createTask answered (in its str() form).
C9_ReadyOnPollN ==
    \A n \in 1..Len(answers) :
        (/\ AllPending(n - 1)
         /\ answers[n].http = "ok" /\ answers[n].errorId = 0
         /\ answers[n].status = "ready" /\ answers[n].solution # None)
        => /\ n <= retries
           /\ spc = "done"
           /\ sresult = [kind |-> "returned", value |-> answers[n].solution]
           /\ sent = <<[endpoint |-> "createTask", taskId |-> NoTask]>>
                      \o [i \in 1..n |-> PollOf(str(vendorTask))]

C9_Witness ==
    /\ spc = "done" /\ retries = 3 /\ Len(answers) = 2
    /\ Pending(answers[1])
    /\ sresult = [kind |-> "returned", value |-> "g2"]
    /\ vendorTask.int

\* C10: when no poll is answered "ready", solve_captcha raises SolverError
\* after exactly retries polls: it goes on polling while fewer were made, and
\* never polls more.
C10_Exhausted ==
    /\ Len(answers) <= retries
    /\ (vendorTask # NoTask /\ AllPending(Len(answers))) =>
          IF Len(answers) = retries
          THEN spc = "done" /\ sresult.kind = "SolverError"
          ELSE spc = "poll"
    /\ sresult.kind = "SolverError" =>
          /\ Len(answers) = retries
          /\ AllPending(Len(answers))
          /\ Len(sent) = retries + 1

C10_Witness ==
    /\ spc = "done" /\ sresult.kind = "SolverError"
    /\ retries = 3 /\ Len(answers) = 3 /\ AllPending(3)

\* an answer that came through and reports a vendor error
VendorError(a) == a.http = "ok" /\ a.errorId # 0

WithErrorText(a) == VendorError(a) /\ a.errField

IsError(a, withText) == IF withText THEN WithErrorText(a) ELSE VendorError(a)

\* what C11 says of the vendor errors: each ends the call with
\* CaptchaException and is the last request of the call
EndsInCaptchaException(withText) ==
    /\ (createAnswer.made /\ IsError(createAnswer, withText))
          => /\ spc = "done" /\ sresult.kind = "CaptchaException"
             /\ Len(sent) = 1 /\ answers = << >>
    /\ \A n \in 1..Len(answers) :
          IsError(answers[n], withText)
             => /\ n = Len(answers) /\ Len(sent) = n + 1
                /\ spc = "done" /\ sresult.kind = "CaptchaException"
    /\ sresult.kind = "SolverError"
          => /\ Len(answers) = retries
             /\ \A n \in 1..Len(answers) : ~VendorError(answers[n])

\* C11, as claimed: a non-zero errorId in the createTask answer or in a poll's
\* answer ends solve_captcha with CaptchaException, that request being its
\* last; SolverError comes only with the polling budget used up.
C11_VendorError == EndsInCaptchaException(FALSE)

\* C11, amended: the same for the answers with a non-zero errorId that carry
\* the error text the adapter reads (errorCode / errorDescription).
C11_VendorErrorWithText == EndsInCaptchaException(TRUE)

C11_Witness ==
    /\ spc = "done" /\ sresult.kind = "CaptchaException"
    /\ retries = 3 /\ Len(answers) = 2 /\ Len(sent) = 3
    /\ Pending(answers[1])
    /\ WithErrorText(answers[2]) /\ answers[2].status = "ready"

(***************************************************************************)
(* Login.save and Login.from_cookies.  A jar is the sequence of its        *)
(* cookies in iteration order (grouped by domain, as the cookie jar keeps  *)
(* them); a dict is the sequence of its items in insertion order.          *)
(***************************************************************************)
CookieNames == {"sp_dc", "remember"}
CookieDomains == {".spotify.com", "accounts.spotify.com"}
CookieValues == {"v1", "v2"}

Last(S) == CHOOSE i \in S : \A j \in S : j <= i

\* cookies.set(name, value, domain=...): the cookie of that name and domain is
\* replaced in place, a new one joins the cookies of its domain
JarSet(j, n, d, v) ==
    LET c    == [name |-> n, domain |-> d, value |-> v]
        same == {i \in 1..Len(j) : j[i].name = n /\ j[i].domain = d}
        dom  == {i \in 1..Len(j) : j[i].domain = d}
    IN  IF same # {} THEN [j EXCEPT ![Last(same)] = c]
        ELSE IF dom # {}
             THEN SubSeq(j, 1, Last(dom)) \o <<c>> \o SubSeq(j, Last(dom) + 1, Len(j))
             ELSE Append(j, c)

\* dictionary[name] = value
DictPut(d, n, v) ==
    LET at == {i \in 1..Len(d) : d[i].name = n}
    IN  IF at # {} THEN [d EXCEPT ![Last(at)].value = v]
        ELSE Append(d, [name |-> n, value |-> v])

\* login.py:113: cookies.get_dict(): every cookie of the jar in turn
RECURSIVE get_dict_from(_, _)
get_dict_from(j, d) ==
    IF j = << >> THEN d
    ELSE get_dict_from(Tail(j), DictPut(d, Head(j).name, Head(j).value))

get_dict(j) == get_dict_from(j, << >>)

\* (mutant) the jar the client already holds is kept
cleared_keeps(j) == j

\* login.py:150: cfg.client.cookies.clear()
cleared(j) == << >>

\* login.py:151-152: every item of the dump's cookies set under .spotify.com
RECURSIVE set_items(_, _)
set_items(j, d) ==
    IF d = << >> THEN j
    ELSE set_items(JarSet(j, Head(d).name, ".spotify.com", Head(d).value), Tail(d))

\* dumps a saver may hold that no save of L wrote
ForeignDumps ==
    {[made |-> TRUE, identifier |-> None, password |-> "pw", hasCookies |-> TRUE,
      cookies |-> <<[name |-> "sp_dc", value |-> "v1"]>>],
     [made |-> TRUE, identifier |-> "u@x", password |-> None, hasCookies |-> FALSE,
      cookies |-> << >>],
     [made |-> TRUE, identifier |-> "u@x", password |-> None, hasCookies |-> TRUE,
      cookies |-> <<[name |-> "sp_dc", value |-> "v2"]>>]}

InitRestore ==
    /\ LoginBuilt("u@x", TRUE)
    /\ SolverBuilt(0)
    /\ \E id \in Identifiers : RestoreBuilt(id, << >>)
    /\ MoreBuilt

\* a response of a Spotify server stores a cookie in the jar of L's client
set_cookie ==
    /\ rnet < MaxCookies
    /\ rnet' = rnet + 1
    /\ \E n \in CookieNames, d \in CookieDomains, v \in CookieValues :
          jar' = JarSet(jar, n, d, v)
    /\ rlast' = "set_cookie"
    /\ rout' = "returned"
    /\ UNCHANGED <<Lid, Llogged, dump, R, Rjar, savedJar>>
    /\ UNCHANGED otherThanRestore

\* login.py:181-183 (and 291): L.logged_in = True
logged_in_setter ==
    /\ ~Llogged
    /\ Llogged' = TRUE
    /\ rlast' = "logged_in"
    /\ rout' = "returned"
    /\ UNCHANGED <<Lid, jar, dump, R, Rjar, rnet, savedJar>>
    /\ UNCHANGED otherThanRestore

\* login.py:105-116: L.save(saver)
save ==
    /\ rlast' = "save"
    /\ IF ~Llogged
       THEN rout' = "ValueError" /\ UNCHANGED <<dump, savedJar>>
       ELSE /\ dump' = [made |-> TRUE, identifier |-> Lid, password |-> "pw",
                        hasCookies |-> TRUE, cookies |-> get_dict(jar)]
            /\ savedJar' = jar
            /\ rout' = "returned"
    /\ UNCHANGED <<Lid, Llogged, jar, R, Rjar, rnet>>
    /\ UNCHANGED otherThanRestore

\* login.py:133-156: Login.from_cookies(d, cfg).  d is the dump L.save handed
\* to the saver, or another one; own: cfg is L's own Config, so that
\* cfg.client is the client of L
from_cookies ==
    \E d \in (IF dump.made THEN {dump} ELSE {}) \cup ForeignDumps, own \in BOOLEAN :
        /\ rlast' = IF d = dump THEN "from_cookies" ELSE "from_cookies_foreign"
        /\ IF ~(d.identifier \notin {None, ""} /\ d.hasCookies)
           THEN rout' = "ValueError" /\ UNCHANGED <<R, Rjar, jar>>
           ELSE LET restored == set_items(cleared(IF own THEN jar ELSE Rjar), d.cookies)
                IN  /\ Rjar' = restored
                    /\ jar' = IF own THEN restored ELSE jar
                    /\ R' = [made |-> TRUE, identifier |-> d.identifier,
                             password |-> IF d.password = None THEN "" ELSE d.password,
                             logged_in |-> TRUE, ofSave |-> (d = dump)]
                    /\ rout' = "returned"
        /\ UNCHANGED <<Lid, Llogged, dump, rnet, savedJar>>
        /\ UNCHANGED otherThanRestore

NextRestore ==
    \/ set_cookie
    \/ logged_in_setter
    \/ save
    \/ from_cookies

SpecRestore == InitRestore /\ [][NextRestore]_vars

(***************************************************************************)
(* Claims about the round trip, checked under SpecRestore.                 *)
(***************************************************************************)
\* the name/value pairs a jar shows: for every name, the value of the cookie
\* that comes last among those of that name
View(j) ==
    {<<j[i].name, j[i].value>> : i \in {k \in 1..Len(j) :
                                          \A m \in (k + 1)..Len(j) : j[m].name # j[k].name}}

\* every cookie of a jar as a name/value pair
Pairs(j) == {<<j[i].name, j[i].value>> : i \in 1..Len(j)}

RoundTrip ==
    /\ rout = "returned"
    /\ R.made /\ R.ofSave /\ R.logged_in
    /\ R.identifier = dump.identifier
    /\ Pairs(Rjar) = View(savedJar)

ClientKinds == {"Std", "TLS"}

\* one transport attempt: a response comes back, the transport library raises
\* its own exception (requests' RequestException, tls_client's
\* TLSClientExeption), or the call raises another Exception
AttemptOutcomes == {"response", "transport_error", "other_error"}

\* request.py:60 (except Exception) and 147 (except TLSClientExeption)
caught(kind, o) ==
    IF kind = "Std" THEN o \in {"transport_error", "other_error"}
    ELSE o = "transport_error"

\* request.py:57 and 144: for _ in range(self.auto_retries), after n attempts
attempts_left(n) == n < auto_retries

HttpEnds(kind) ==
    /\ hpc' = "done"
    /\ hout' = kind

InitHttp ==
    /\ LoginBuilt("u@x", TRUE)
    /\ SolverBuilt(0)
    /\ RestoreBuilt("u@x", << >>)
    /\ \E kind \in ClientKinds, r \in (-1)..MaxAutoRetries : HttpBuilt(kind, r)
    /\ WsBuilt("WebsocketStreamer", None)
    /\ EvBuilt
    /\ ClientBuilt(Undefined, Undefined)
    /\ LaterBuilt

\* request.py:78-84, 189-195, 201-212, 218-229: get / post / put / request
\* entered, up to the first attempt of build_request (46-57, 133-144)
request ==
    /\ hpc \in {"idle", "done"}
    /\ hreqs < MaxRequests
    /\ hreqs' = hreqs + 1
    /\ attempts' = << >>
    /\ IF attempts_left(0)
       THEN hpc' = "loop" /\ hout' = "running"
       ELSE HttpEnds("RequestError")
    /\ UNCHANGED <<hkind, hr, auto_retries>>
    /\ UNCHANGED otherThanHttp

\* request.py:57-64 and 144-151: one turn of build_request's loop, and the
\* raise after the last one
build_request ==
    /\ hpc = "loop"
    /\ \E o \in AttemptOutcomes :
          /\ attempts' = Append(attempts, o)
          /\ CASE o = "response" -> HttpEnds("returned")
               [] caught(hkind, o) ->
                    IF attempts_left(Len(attempts'))
                    THEN UNCHANGED <<hpc, hout>>
                    ELSE HttpEnds("RequestError")
               [] OTHER -> HttpEnds(o)
    /\ UNCHANGED <<hkind, hr, auto_retries, hreqs>>
    /\ UNCHANGED otherThanHttp

NextHttp ==
    \/ request
    \/ build_request

SpecHttp == InitHttp /\ [][NextHttp]_vars

(***************************************************************************)
(* Claims about the retry loop, checked under SpecHttp.                    *)
(***************************************************************************)
\* the attempts a client built with auto_retries = r may make
Budget == IF hr + 1 > 0 THEN hr + 1 ELSE 0

Classes == {"WebsocketStreamer", "PlayerStatus", "EventManager", "Player"}

\* the first frame of the socket: a JSON object without "headers", with
\* "headers": null, with empty headers, with headers that lack
\* Spotify-Connection-Id, with the header; a text that is not JSON; or recv()
\* finds the connection closed
FrameKinds == {"no_headers", "headers_null", "headers_empty", "no_connection_id",
               "with_connection_id", "not_json", "recv_closed"}

InitErrors == {"ValueError", "JSONDecodeError", "ConnectionClosed"}

\* (mutant) the connection id is returned without the check for None
get_init_packet_unchecked(frame) ==
    CASE frame = "recv_closed" -> "ConnectionClosed"
      [] frame = "not_json" -> "JSONDecodeError"
      [] frame = "with_connection_id" -> "c1"
      [] OTHER -> None

\* websocket.py:174-177 and 188-195: get_packet, then get_init_packet
get_init_packet(frame) ==
    CASE frame = "recv_closed" -> "ConnectionClosed"
      [] frame = "not_json" -> "JSONDecodeError"
      [] frame = "with_connection_id" -> "c1"
      [] OTHER -> "ValueError"

\* a request the object sends: register_device's POST, connect_device's PUT,
\* transfer_player's POST, _run_command's POST
Req(kind, from, to) == [req |-> kind, from |-> from, to |-> to]

\* the answers to connect_device's PUT: a failure, or {player_state, devices,
\* active_device_id}; origin is player_state.play_origin: absent, with an
\* empty device_identifier, or with the device "o1"
PullResults ==
    {[http |-> h, active |-> None, origin |-> "absent", has_state |-> FALSE,
      has_devices |-> FALSE] : h \in {"fail", "transport"}}
    \cup {[http |-> "ok", active |-> a, origin |-> o, has_state |-> TRUE,
           has_devices |-> d] :
             a \in {None, "d1"}, o \in {"absent", "empty", "o1"}, d \in BOOLEAN}
    \cup {[http |-> "ok", active |-> a, origin |-> "absent", has_state |-> FALSE,
           has_devices |-> TRUE] : a \in {None, "d1"}}

\* websocket.py:152-156: connect_device raises on resp.fail; the client raises
\* RequestError when its retries run out
connect_device(r) ==
    CASE r.http = "fail" -> "WebSocketError"
      [] r.http = "transport" -> "RequestError"
      [] OTHER -> "ok"

\* status.py:48-50: renew_state: the PUT, and the snapshot replaced by its answer
renew_state(r) ==
    /\ pulls' = pulls + 1
    /\ snap' = IF connect_device(r) = "ok"
               THEN [made |-> TRUE, ver |-> pulls + 1, active |-> r.active,
                     origin |-> r.origin, has_state |-> r.has_state,
                     has_devices |-> r.has_devices]
               ELSE snap

\* status.py:82-85: the state property, after its pull answered r
state(r) ==
    IF connect_device(r) # "ok" THEN connect_device(r)
    ELSE IF ~r.has_state THEN "ValueError" ELSE "ok"

\* the construction ends by raising kind
Fail(kind) ==
    /\ wpc' = "failed"
    /\ wout' = kind

\* the constructor of the subclass that runs after register_device
AfterRegister ==
    CASE wcls = "EventManager" -> "em_state"
      [] wcls = "Player" -> "pl_devices"
      [] OTHER -> "built"

InitWs ==
    /\ LoginBuilt("u@x", TRUE)
    /\ SolverBuilt(0)
    /\ RestoreBuilt("u@x", << >>)
    /\ HttpBuilt("Std", 0)
    /\ EvBuilt
    /\ ClientBuilt(Undefined, Undefined)
    /\ LaterBuilt
    /\ \E cls \in Classes, arg \in {None, "d2"} :
          /\ (cls # "Player" => arg = None)
          /\ WsBuilt(cls, arg)

\* websocket.py:50-59: the login check and the session bootstrap
WebsocketStreamer_init ==
    /\ proc = "running" /\ wpc = "new"
    /\ \E logged \in BOOLEAN, boot \in {"ok", "SessionError"} :
          IF ~logged THEN Fail("ValueError")
          ELSE IF boot # "ok" THEN Fail(boot)
          ELSE wpc' = "connect" /\ UNCHANGED wout
    /\ UNCHANGED <<wcls, ws, closes, keep_alive_thread, listener, atexit_ws_close,
                   sigint_handler, initFrame, connection_id, registered, proc, wlog,
                   device_arg, snap, pulls, active_id, device_id, lastRead>>
    /\ UNCHANGED otherThanWs

\* websocket.py:61-69: connect(uri, ...)
connect ==
    /\ proc = "running" /\ wpc = "connect"
    /\ \E r \in {"open", "ConnectionError"} :
          IF r = "open" THEN ws' = "open" /\ wpc' = "init_packet" /\ UNCHANGED wout
          ELSE Fail(r) /\ UNCHANGED ws
    /\ UNCHANGED <<wcls, closes, keep_alive_thread, listener, atexit_ws_close,
                   sigint_handler, initFrame, connection_id, registered, proc, wlog,
                   device_arg, snap, pulls, active_id, device_id, lastRead>>
    /\ UNCHANGED otherThanWs

\* websocket.py:71-73: self.connection_id = self.get_init_packet()
WebsocketStreamer_init_packet ==
    /\ proc = "running" /\ wpc = "init_packet"
    /\ \E f \in FrameKinds :
          /\ initFrame' = f
          /\ IF get_init_packet(f) \in InitErrors
             THEN Fail(get_init_packet(f)) /\ UNCHANGED connection_id
             ELSE /\ connection_id' = get_init_packet(f)
                  /\ wpc' = "keep_alive" /\ UNCHANGED wout
    /\ UNCHANGED <<wcls, ws, closes, keep_alive_thread, listener, atexit_ws_close,
                   sigint_handler, registered, proc, wlog,
                   device_arg, snap, pulls, active_id, device_id, lastRead>>
    /\ UNCHANGED otherThanWs

\* websocket.py:75-79: the keep-alive thread, atexit.register(self.ws.close),
\* signal.signal(SIGINT, self.handle_interrupt)
start_keep_alive ==
    /\ proc = "running" /\ wpc = "keep_alive"
    /\ keep_alive_thread' = TRUE
    /\ atexit_ws_close' = TRUE
    /\ sigint_handler' = TRUE
    /\ wpc' = IF wcls = "WebsocketStreamer" THEN "built" ELSE "register"
    /\ UNCHANGED <<wcls, wout, ws, closes, listener, initFrame, connection_id,
                   registered, proc, wlog,
                   device_arg, snap, pulls, active_id, device_id, lastRead>>
    /\ UNCHANGED otherThanWs

\* (mutant) the answer of the registration is not looked at
register_device_raises_never(h) == "ok"

\* websocket.py:124-126: raise WebSocketError on resp.fail; the client raises
\* RequestError when its retries run out
register_device_raises(h) ==
    CASE h = "fail" -> "WebSocketError"
      [] h = "transport" -> "RequestError"
      [] OTHER -> "ok"

\* status.py:38-42 and websocket.py:124-126: PlayerStatus.__init__ after
\* super().__init__: register_device
register_device ==
    /\ proc = "running" /\ wpc = "register"
    /\ wlog' = Append(wlog, Req("register", None, None))
    /\ \E h \in HttpResults :
          /\ registered' = (h = "ok")
          /\ IF register_device_raises(h) # "ok"
             THEN Fail(register_device_raises(h))
             ELSE wpc' = AfterRegister /\ UNCHANGED wout
    /\ UNCHANGED <<wcls, ws, closes, keep_alive_thread, listener, atexit_ws_close,
                   sigint_handler, initFrame, connection_id, proc,
                   device_arg, snap, pulls, active_id, device_id, lastRead>>
    /\ UNCHANGED otherThanWs

\* status.py:209-215: EventManager.__init__ after super().__init__: self.state,
\* then the receive thread
EventManager_init ==
    /\ proc = "running" /\ wpc = "em_state"
    /\ \E r \in PullResults :
          /\ renew_state(r)
          /\ wlog' = Append(wlog, Req("connect_state", None, None))
          /\ IF state(r) # "ok" THEN Fail(state(r)) /\ UNCHANGED listener
             ELSE listener' = TRUE /\ wpc' = "built" /\ UNCHANGED wout
    /\ UNCHANGED <<wcls, ws, closes, keep_alive_thread, atexit_ws_close,
                   sigint_handler, initFrame, connection_id, registered, proc,
                   device_arg, active_id, device_id, lastRead>>
    /\ UNCHANGED otherThanWs

\* the atexit handlers at the exit of the process (websocket.py:78)
RunAtexit(closedBefore) ==
    /\ proc' = "exited"
    /\ closes' = closes + closedBefore + (IF atexit_ws_close THEN 1 ELSE 0)
    /\ ws' = IF closedBefore + (IF atexit_ws_close THEN 1 ELSE 0) > 0 THEN "closed" ELSE ws

\* SIGINT.  With handle_interrupt installed (websocket.py:204-205): ws.close()
\* and exit(0), which runs the atexit handlers.  Without it Python raises
\* KeyboardInterrupt in the main thread: a running constructor ends with it,
\* an idle program exits.
sigint ==
    /\ proc = "running"
    /\ IF sigint_handler
       THEN /\ RunAtexit(1)
            /\ IF wpc \in {"built", "failed"} THEN UNCHANGED <<wpc, wout>>
               ELSE Fail("SystemExit")
       ELSE IF wpc \in {"built", "failed"}
            THEN RunAtexit(0) /\ UNCHANGED <<wpc, wout>>
            ELSE Fail("KeyboardInterrupt") /\ UNCHANGED <<proc, closes, ws>>
    /\ UNCHANGED <<wcls, keep_alive_thread, listener, atexit_ws_close,
                   sigint_handler, initFrame, connection_id, registered, wlog,
                   device_arg, snap, pulls, active_id, device_id, lastRead>>
    /\ UNCHANGED otherThanWs

\* the program ends: the interpreter runs the atexit handlers
process_exit ==
    /\ proc = "running" /\ wpc \in {"built", "failed"}
    /\ RunAtexit(0)
    /\ UNCHANGED <<wcls, wpc, wout, keep_alive_thread, listener, atexit_ws_close,
                   sigint_handler, initFrame, connection_id, registered, wlog,
                   device_arg, snap, pulls, active_id, device_id, lastRead>>
    /\ UNCHANGED otherThanWs

MaxPulls == 4
MaxCommands == 2

\* Python's str(v): str(None) is the four-letter string, which is not None
py_str(v) == IF v = None THEN "'None'" ELSE v

\* Devices.from_dict(devices, active_device_id).active_device_id: the
\* dataclass keeps the id it is given
Devices_from_dict(active) == active

\* status.py:116-129: the device_ids property, after its pull answered r:
\* an error, or the Devices object's active_device_id.  None has __str__, so
\* the conditional of lines 126-128 always takes str(active_device_id).
device_ids(r) ==
    IF connect_device(r) # "ok" THEN [err |-> connect_device(r), active |-> None]
    ELSE IF ~r.has_devices THEN [err |-> "ValueError", active |-> None]
    ELSE [err |-> "ok", active |-> Devices_from_dict(py_str(r.active))]

\* player.py:42-50: _devices = self.device_ids ... self.active_id = ...
Player_device_ids ==
    /\ proc = "running" /\ wpc = "pl_devices"
    /\ \E r \in PullResults :
          /\ renew_state(r)
          /\ wlog' = Append(wlog, Req("connect_state", None, None))
          /\ IF device_ids(r).err # "ok"
             THEN Fail(device_ids(r).err) /\ UNCHANGED active_id
             ELSE IF device_ids(r).active = None /\ device_arg = None
             THEN Fail("ValueError") /\ UNCHANGED active_id
             ELSE /\ active_id' = IF device_arg # None THEN device_arg
                                  ELSE device_ids(r).active
                  /\ wpc' = "pl_state" /\ UNCHANGED wout
    /\ UNCHANGED <<wcls, ws, closes, keep_alive_thread, listener, atexit_ws_close,
                   sigint_handler, initFrame, connection_id, registered, proc,
                   device_arg, device_id, lastRead>>
    /\ UNCHANGED otherThanWs

\* player.py:51-60: self.r_state = self.state ... self.device_id = ...
Player_state ==
    /\ proc = "running" /\ wpc = "pl_state"
    /\ \E r \in PullResults :
          /\ renew_state(r)
          /\ wlog' = Append(wlog, Req("connect_state", None, None))
          /\ IF state(r) # "ok" THEN Fail(state(r)) /\ UNCHANGED device_id
             ELSE IF r.origin \in {"absent", "empty"}
             THEN Fail("ValueError") /\ UNCHANGED device_id
             ELSE device_id' = r.origin /\ wpc' = "pl_transfer" /\ UNCHANGED wout
    /\ UNCHANGED <<wcls, ws, closes, keep_alive_thread, listener, atexit_ws_close,
                   sigint_handler, initFrame, connection_id, registered, proc,
                   device_arg, active_id, lastRead>>
    /\ UNCHANGED otherThanWs

\* player.py:61 and 94-106: self.transfer_player(self.device_id, self.active_id):
\* self.state for restore_paused, then the POST to .../transfer/from/<>/to/<>
transfer_player ==
    /\ proc = "running" /\ wpc = "pl_transfer"
    /\ \E r \in PullResults, h \in HttpResults :
          /\ renew_state(r)
          /\ IF state(r) # "ok"
             THEN /\ wlog' = Append(wlog, Req("connect_state", None, None))
                  /\ Fail(state(r))
             ELSE /\ wlog' = wlog \o << Req("connect_state", None, None),
                                        Req("transfer", device_id, active_id) >>
                  /\ CASE h = "fail" -> Fail("PlayerError")
                       [] h = "transport" -> Fail("RequestError")
                       [] OTHER -> wpc' = "built" /\ UNCHANGED wout
    /\ UNCHANGED <<wcls, ws, closes, keep_alive_thread, listener, atexit_ws_close,
                   sigint_handler, initFrame, connection_id, registered, proc,
                   device_arg, active_id, device_id, lastRead>>
    /\ UNCHANGED otherThanWs

Commands(l) == SelectSeq(l, LAMBDA q : q.req = "command")

\* player.py:108-111 and 86-92: run_command(command) of a constructed Player
run_command ==
    /\ proc = "running" /\ wpc = "built" /\ wcls = "Player"
    /\ Len(Commands(wlog)) < MaxCommands
    /\ wlog' = Append(wlog, Req("command", device_id, active_id))
    /\ \E h \in HttpResults :
          lastRead' = [prop |-> "run_command",
                       out |-> CASE h = "fail" -> "PlayerError"
                                 [] h = "transport" -> "RequestError"
                                 [] OTHER -> "ok",
                       ver |-> 0, before |-> pulls]
    /\ UNCHANGED <<wcls, wpc, wout, ws, closes, keep_alive_thread, listener,
                   atexit_ws_close, sigint_handler, initFrame, connection_id,
                   registered, proc, device_arg, snap, pulls, active_id, device_id>>
    /\ UNCHANGED otherThanWs

\* the properties of PlayerStatus that the claim lists (status.py:71-192)
Properties == {"state", "device_ids", "active_device_id", "next_song_in_queue",
               "next_songs_in_queue", "last_played", "last_songs_played"}

\* (mutant) the body of saved_state: renew only when nothing is stored
renews_when_empty(p) == ~snap.has_state

\* status.py:82, 116, 141 call self.renew_state(); 160, 171, 181, 192 read
\* self.state, which does
renews(p) == p \in Properties

\* what the property raises or returns on the snapshot s (status.py:83-85,
\* 118-129, 144-150)
property_result(p, s) ==
    CASE p = "device_ids" -> IF ~s.has_devices THEN "ValueError" ELSE "ok"
      [] p = "active_device_id" -> IF s.active = None THEN "ValueError" ELSE "ok"
      [] OTHER -> IF ~s.has_state THEN "ValueError" ELSE "ok"

\* a read of one property of a constructed PlayerStatus / EventManager / Player
read_property ==
    /\ proc = "running" /\ wpc = "built" /\ wcls # "WebsocketStreamer"
    /\ pulls < MaxPulls
    /\ \E p \in Properties, r \in PullResults :
          IF renews(p)
          THEN /\ renew_state(r)
               /\ wlog' = Append(wlog, Req("connect_state", None, None))
               /\ lastRead' =
                    IF connect_device(r) # "ok"
                    THEN [prop |-> p, out |-> connect_device(r), ver |-> 0,
                          before |-> pulls]
                    ELSE [prop |-> p, out |-> property_result(p, r),
                          ver |-> pulls + 1, before |-> pulls]
          ELSE /\ UNCHANGED <<snap, pulls, wlog>>
               /\ lastRead' = [prop |-> p, out |-> property_result(p, snap),
                               ver |-> snap.ver, before |-> pulls]
    /\ UNCHANGED <<wcls, wpc, wout, ws, closes, keep_alive_thread, listener,
                   atexit_ws_close, sigint_handler, initFrame, connection_id,
                   registered, proc, device_arg, active_id, device_id>>
    /\ UNCHANGED otherThanWs

\* (mutant) a plain property: the body runs on every read
kept_never(p) == FALSE

\* status.py:52 and 87: functools.cached_property returns the value its first
\* completed read stored in the instance's __dict__, without running the body
kept(p) == memo[p] # 0

\* status.py:63 and 98: `if self._state is None` / `if self._devices is None`
nothing_stored(p, s) ==
    IF p = "saved_state" THEN ~s.has_state ELSE ~s.has_devices

\* a read of saved_state or saved_device_ids of a constructed PlayerStatus /
\* EventManager / Player (status.py:52-69, 87-104)
read_saved ==
    /\ proc = "running" /\ wpc = "built" /\ wcls # "WebsocketStreamer"
    /\ \E p \in SavedProperties, r \in PullResults :
          IF kept(p)
          THEN /\ lastRead' = [prop |-> p, out |-> "ok", ver |-> memo[p], before |-> pulls]
               /\ r = CHOOSE q \in PullResults : TRUE
               /\ UNCHANGED <<snap, pulls, wlog, memo>>
          ELSE IF nothing_stored(p, snap)
          THEN /\ pulls < MaxPulls
               /\ renew_state(r)
               /\ wlog' = Append(wlog, Req("connect_state", None, None))
               /\ IF connect_device(r) # "ok"
                  THEN /\ lastRead' = [prop |-> p, out |-> connect_device(r), ver |-> 0,
                                       before |-> pulls]
                       /\ UNCHANGED memo
                  ELSE IF nothing_stored(p, r)
                  THEN /\ lastRead' = [prop |-> p, out |-> "ValueError", ver |-> pulls + 1,
                                       before |-> pulls]
                       /\ UNCHANGED memo
                  ELSE /\ lastRead' = [prop |-> p, out |-> "ok", ver |-> pulls + 1,
                                       before |-> pulls]
                       /\ memo' = [memo EXCEPT ![p] = pulls + 1]
          ELSE /\ r = CHOOSE q \in PullResults : TRUE
               /\ lastRead' = [prop |-> p, out |-> "ok", ver |-> snap.ver, before |-> pulls]
               /\ memo' = [memo EXCEPT ![p] = snap.ver]
               /\ UNCHANGED <<snap, pulls, wlog>>
    /\ UNCHANGED <<wcls, wpc, wout, ws, closes, keep_alive_thread, listener,
                   atexit_ws_close, sigint_handler, initFrame, connection_id,
                   registered, proc, device_arg, active_id, device_id>>
    /\ UNCHANGED otherThanWsSaved

\* a PlayerStatus(login) about to be constructed
InitSaved ==
    /\ LoginBuilt("u@x", TRUE)
    /\ SolverBuilt(0)
    /\ RestoreBuilt("u@x", << >>)
    /\ HttpBuilt("Std", 0)
    /\ EvBuilt
    /\ ClientBuilt(Undefined, Undefined)
    /\ LaterBuilt
    /\ WsBuilt("PlayerStatus", None)

\* the construction of the PlayerStatus and the reads of its properties
NextSaved ==
    \/ WebsocketStreamer_init
    \/ connect
    \/ WebsocketStreamer_init_packet
    \/ start_keep_alive
    \/ register_device
    \/ read_property
    \/ read_saved

SpecSaved == InitSaved /\ [][NextSaved]_vars

NextWs ==
    \/ WebsocketStreamer_init
    \/ connect
    \/ WebsocketStreamer_init_packet
    \/ start_keep_alive
    \/ register_device
    \/ EventManager_init
    \/ Player_device_ids
    \/ Player_state
    \/ transfer_player
    \/ run_command
    \/ read_property
    \/ sigint
    \/ process_exit

SpecWs == InitWs /\ [][NextWs]_vars

\* the init frames that carry no Spotify-Connection-Id
HeaderlessFrames == {"no_headers", "headers_null", "headers_empty", "no_connection_id"}

\* C13: when the first inbound frame has no headers or no
\* Spotify-Connection-Id header, the construction has ended with ValueError,
\* no connection id was stored, and neither the keep-alive thread nor the
\* receive thread has been started (nor is one started later).
C13_HeaderlessInitFrame ==
    initFrame \in HeaderlessFrames =>
        /\ wpc = "failed" /\ wout = "ValueError"
        /\ connection_id = None
        /\ ~keep_alive_thread /\ ~listener

C13_Witness ==
    /\ wcls = "EventManager" /\ ws = "open"
    /\ initFrame = "no_connection_id"
    /\ wout = "ValueError"

\* C16: a read of one of the seven properties has sent one connect-state PUT
\* during the read (it is the last request sent), and what it returned comes
\* from the answer to that PUT, which is the stored snapshot; when the PUT
\* fails the read raises and returns nothing.
C16_ReadsPull ==
    lastRead.prop \in Properties =>
        /\ pulls = lastRead.before + 1
        /\ wlog # << >> /\ wlog[Len(wlog)].req = "connect_state"
        /\ lastRead.out \in {"ok", "ValueError"} =>
              lastRead.ver = pulls /\ snap.ver = pulls
        /\ lastRead.out \notin {"ok", "ValueError"} =>
              lastRead.out \in {"WebSocketError", "RequestError"} /\ lastRead.ver = 0

C16_Witness ==
    /\ wcls = "PlayerStatus"
    /\ lastRead.prop = "last_played" /\ lastRead.out = "ok"
    /\ lastRead.before = 1 /\ lastRead.ver = 2

\* ids of devices, as opposed to None, "" and the text of str(None)
ActualIds == {"d1", "d2", "o1"}

Mutating(l) == SelectSeq(l, LAMBDA q : q.req \in {"transfer", "command"})

\* C17: every transfer and command request carries an origin and a target
\* that are ids of devices, and a Player constructed without device_id on a
\* snapshot without active device does not get past its ValueError.
C17_ResolvedIds ==
    /\ \A i \in DOMAIN wlog :
          wlog[i].req \in {"transfer", "command"} =>
              wlog[i].from \in ActualIds /\ wlog[i].to \in ActualIds
    /\ (wcls = "Player" /\ wpc = "pl_state") =>
          ~(snap.active = None /\ device_arg = None)

C30_LatestSnapshot ==
    [][(lastRead' # lastRead /\ lastRead'.prop \in SavedProperties)
          => /\ lastRead'.out = "ok" => lastRead'.ver = snap'.ver
             /\ pulls' # pulls => nothing_stored(lastRead'.prop, snap)]_vars

\* C30 (what holds): a read that returns yields the snapshot that was the
\* stored one at the property's first read that returned, whatever was
\* pulled since; it pulls only when it has not returned before and nothing
\* is stored.
C30_FirstSnapshot ==
    [][(lastRead' # lastRead /\ lastRead'.prop \in SavedProperties)
          => /\ lastRead'.out = "ok" => lastRead'.ver = memo'[lastRead'.prop]
             /\ memo[lastRead'.prop] # 0 =>
                   /\ memo' = memo /\ pulls' = pulls /\ lastRead'.out = "ok"
             /\ pulls' # pulls =>
                   memo[lastRead'.prop] = 0 /\ nothing_stored(lastRead'.prop, snap)]_vars

\* saved_state read after two more pulls still shows the first snapshot
C30_Witness ==
    /\ lastRead.prop = "saved_state" /\ lastRead.out = "ok"
    /\ memo["saved_state"] = 1 /\ lastRead.ver = 1
    /\ snap.ver = 3 /\ snap.has_state

\* C19: the socket that was opened is closed at most once, and once the
\* process has ended it has been closed exactly once.
C19_ClosedOnce ==
    /\ closes <= 1
    /\ (proc = "exited" /\ ws # "none") => closes = 1

(***************************************************************************)
(* The event layer of EventManager (status.py:195-284).  The class carries *)
(* @enforce (spotapi_types/annotations.py), and status.py evaluates its    *)
(* annotations, so every method call runs enforce_types' checks.           *)
(***************************************************************************)
MaxAsked == 2
MaxFrames == 2
MaxPayloads == 2

\* the annotations of the methods of EventManager that take or return callables
SubscribeReturn == "Callable[[Callable[P, R]], Callable[P, R]]"
FuncParameter == "Callable[..., Any]"

\* annotations.py:59-97: _is_instance_of(value, expected_type) has no branch
\* for collections.abc.Callable and ends in isinstance(value, expected_type),
\* which raises TypeError for a subscripted generic
is_instance_of_raises(annotation) == annotation \in {SubscribeReturn, FuncParameter}

Range(q) == {q[i] : i \in DOMAIN q}

\* status.py:217-228 behind enforce_types (annotations.py:37-44): the check of
\* the argument func, then the body
_subscribe_callable(event, func, subs) ==
    IF is_instance_of_raises(FuncParameter) THEN [out |-> "TypeError", subs |-> subs]
    ELSE IF func \notin Range(subs[event])
    THEN [out |-> "registered", subs |-> [subs EXCEPT ![event] = Append(@, func)]]
    ELSE [out |-> "ValueError", subs |-> subs]

\* status.py:241-247: decorator(func) makes a new function object `wrapped`
\* at each call (n tells them apart) and registers that
decorator(event, func, subs, n) ==
    _subscribe_callable(event, [fn |-> func, id |-> n], subs)

\* status.py:230-249 behind enforce_types (annotations.py:46-52): the body
\* returns decorator, then the check of the return value; decorator(func)
\* runs only when subscribe(event) returned
subscribe_then_decorate(event, func, subs, n) ==
    IF is_instance_of_raises(SubscribeReturn) THEN [out |-> "TypeError", subs |-> subs]
    ELSE decorator(event, func, subs, n)

\* payloads name their update_reason, or have none
NoReason == "no update_reason"
Reasons == Events \cup {NoReason}

\* the frames get_packet returns: without "payloads", or with a list of payloads
FrameChoices ==
    {[has |-> FALSE, payloads |-> << >>]}
    \cup {[has |-> TRUE, payloads |-> q] :
             q \in UNION {[1..n -> Reasons] : n \in 0..MaxPayloads}}

\* status.py:284: payload["update_reason"] raises KeyError at the first
\* payload without the key; the payloads before it were emitted
Emitted(payloads) ==
    IF \E j \in DOMAIN payloads : payloads[j] = NoReason
    THEN (CHOOSE j \in DOMAIN payloads :
             /\ payloads[j] = NoReason
             /\ \A k \in 1..(j - 1) : payloads[k] # NoReason) - 1
    ELSE Len(payloads)

\* status.py:260-262: _emit(event, payload) calls the registered functions in
\* list order
RECURSIVE _emit(_, _, _)
_emit(frameNo, j, handles) ==
    IF handles = << >> THEN << >>
    ELSE << [frame |-> frameNo, payload |-> j, func |-> Head(handles).fn] >>
         \o _emit(frameNo, j, Tail(handles))

\* status.py:283-284: for payload in event["payloads"]: self._emit(...)
RECURSIVE EmitAll(_, _, _, _)
EmitAll(frameNo, payloads, j, last) ==
    IF j > last THEN << >>
    ELSE _emit(frameNo, j, subscriptions[payloads[j]])
         \o EmitAll(frameNo, payloads, j + 1, last)

\* the process after EventManager(login) returned: socket open, device
\* registered, both threads running
EventManagerBuilt ==
    /\ wcls = "EventManager"
    /\ wpc = "built"
    /\ wout = "none"
    /\ ws = "open"
    /\ closes = 0
    /\ keep_alive_thread = TRUE
    /\ listener = TRUE
    /\ atexit_ws_close = TRUE
    /\ sigint_handler = TRUE
    /\ initFrame = "with_connection_id"
    /\ connection_id = "c1"
    /\ registered = TRUE
    /\ proc = "running"
    /\ wlog = << Req("register", None, None), Req("connect_state", None, None) >>
    /\ device_arg = None
    /\ snap = [made |-> TRUE, ver |-> 1, active |-> None, origin |-> "absent",
               has_state |-> TRUE, has_devices |-> TRUE]
    /\ pulls = 1
    /\ active_id = None
    /\ device_id = None
    /\ lastRead = NoRead

InitEvents ==
    /\ LoginBuilt("u@x", TRUE)
    /\ SolverBuilt(0)
    /\ RestoreBuilt("u@x", << >>)
    /\ HttpBuilt("Std", 0)
    /\ ClientBuilt(Undefined, Undefined)
    /\ LaterBuilt
    /\ EventManagerBuilt
    /\ EvBuilt

\* @em.subscribe(event) applied to the function func of the program
subscribe ==
    /\ Len(asked) < MaxAsked
    /\ \E event \in Events, func \in Handlers :
          LET r == subscribe_then_decorate(event, func, subscriptions, Len(asked) + 1)
          IN /\ asked' = Append(asked, [event |-> event, func |-> func, out |-> r.out])
             /\ subscriptions' = r.subs
    /\ UNCHANGED <<frames, invoked, listen_thread>>
    /\ UNCHANGED otherThanEv

\* status.py:276-284: one round of the loop of _listen
_listen ==
    /\ listen_thread = "running"
    /\ Len(frames) < MaxFrames
    /\ \E fr \in FrameChoices :
          /\ frames' = Append(frames, [has |-> fr.has, payloads |-> fr.payloads,
                                       at |-> Len(asked),
                                       done |-> Emitted(fr.payloads)])
          /\ invoked' = invoked \o EmitAll(Len(frames) + 1, fr.payloads, 1,
                                           Emitted(fr.payloads))
          /\ listen_thread' = IF Emitted(fr.payloads) < Len(fr.payloads)
                              THEN "KeyError" ELSE "running"
    /\ UNCHANGED <<subscriptions, asked>>
    /\ UNCHANGED otherThanEv

NextEvents ==
    \/ subscribe
    \/ _listen

SpecEvents == InitEvents /\ [][NextEvents]_vars

\* C14: of the registrations made through subscribe(event), the first of a
\* function under an event name registers it and a repeated one raises
\* ValueError; no function is in the list of one event name twice.
C14_DuplicateRaises ==
    /\ \A i \in DOMAIN asked :
          asked[i].out =
             IF \E j \in 1..(i - 1) : /\ asked[j].event = asked[i].event
                                      /\ asked[j].func = asked[i].func
             THEN "ValueError" ELSE "registered"
    /\ \A e \in Events : \A i, j \in DOMAIN subscriptions[e] :
          subscriptions[e][i].fn = subscriptions[e][j].fn => i = j

\* the functions the program registered under event with its first n
\* subscribe calls, in the order of registration, each once
RECURSIVE Wanted(_, _)
Wanted(event, n) ==
    IF n = 0 THEN << >>
    ELSE IF /\ asked[n].event = event
            /\ ~\E j \in 1..(n - 1) : /\ asked[j].event = event
                                      /\ asked[j].func = asked[n].func
         THEN Append(Wanted(event, n - 1), asked[n].func)
         ELSE Wanted(event, n - 1)

InvokedFor(i, j) ==
    SelectSeq(invoked, LAMBDA c : c.frame = i /\ c.payload = j)

\* C15: for every payload of a received frame, the invocations made for it
\* are those of the functions the program registered under the payload's
\* update_reason, once each, in registration order (so a function registered
\* under two names is invoked for each, and no function of another name is).
C15_Dispatch ==
    \A i \in DOMAIN frames : \A j \in DOMAIN frames[i].payloads :
        frames[i].payloads[j] \in Events =>
            /\ Len(InvokedFor(i, j)) = Len(Wanted(frames[i].payloads[j], frames[i].at))
            /\ \A k \in DOMAIN InvokedFor(i, j) :
                  InvokedFor(i, j)[k].func = Wanted(frames[i].payloads[j], frames[i].at)[k]

(***************************************************************************)
(* The session bootstrap of BaseClient (client.py), as the specification   *)
(* and the tests of spotapi_tests/test_client.py describe it.              *)
(***************************************************************************)
MaxBootCalls == 4

\* the credentials a consumer assigns (test_client.py:332-333, 349-350)
AssignedTokens == {Undefined, "already"}
AssignedIds == {Undefined, "already-id"}

\* the answers to the GET of the entry page: a failure, or accessToken and
\* clientId (test_client.py:335-338)
BootAnswers ==
    {[fail |-> TRUE, accessToken |-> Undefined, clientId |-> Undefined]}
    \cup {[fail |-> FALSE, accessToken |-> t, clientId |-> c] :
             t \in {"tok1", "tok2"}, c \in {"id1", "id2"}}

\* (mutant) the entry page is fetched at every call
needs_bootstrap_always(at, cid) == TRUE

\* the round trip is made when either credential is unset
needs_bootstrap(at, cid) == at = Undefined \/ cid = Undefined

InitClient ==
    /\ LoginBuilt("u@x", TRUE)
    /\ SolverBuilt(0)
    /\ RestoreBuilt("u@x", << >>)
    /\ HttpBuilt("Std", 0)
    /\ WsBuilt("WebsocketStreamer", None)
    /\ EvBuilt
    /\ LaterBuilt
    /\ \E at \in AssignedTokens, cid \in AssignedIds : ClientBuilt(at, cid)

\* client.access_token = ...; client.client_id = ... by the consumer
assign_credentials ==
    /\ \E at \in AssignedTokens, cid \in AssignedIds :
          /\ access_token' = at
          /\ client_id' = cid
    /\ UNCHANGED <<bcalls, bnet, bout>>
    /\ UNCHANGED otherThanClient

\* BaseClient._get_auth_vars(): the GET and the extraction when a credential
\* is unset, BaseClientError when the GET failed, nothing otherwise
_get_auth_vars ==
    /\ bcalls < MaxBootCalls
    /\ bcalls' = bcalls + 1
    /\ IF needs_bootstrap(access_token, client_id)
       THEN /\ bnet' = bnet + 1
            /\ \E resp \in BootAnswers :
                  IF resp.fail
                  THEN bout' = "BaseClientError" /\ UNCHANGED <<access_token, client_id>>
                  ELSE /\ access_token' = resp.accessToken
                       /\ client_id' = resp.clientId
                       /\ bout' = "ok"
       ELSE /\ bout' = "ok"
            /\ UNCHANGED <<bnet, access_token, client_id>>
    /\ UNCHANGED otherThanClient

(***************************************************************************)
(* The client-token exchange of BaseClient (client.py), as the             *)
(* specification and spotapi_tests/test_client.py describe it.             *)
(***************************************************************************)
MaxTokenCalls == 2

Granted == "RESPONSE_GRANTED_TOKEN_RESPONSE"

\* the answers to the exchange POST: a failed request (resp.fail), a body
\* that is no JSON object, and JSON objects without response_type, with
\* another response_type, and with the granted one, with and without
\* granted_token.token
TokenAnswers ==
    {[fail |-> TRUE, mapping |-> FALSE, response_type |-> None, token |-> None],
     [fail |-> FALSE, mapping |-> FALSE, response_type |-> Granted, token |-> None]}
    \cup {[fail |-> FALSE, mapping |-> TRUE, response_type |-> t, token |-> None] :
             t \in {None, "OTHER_TYPE", Granted}}
    \cup {[fail |-> FALSE, mapping |-> TRUE, response_type |-> t, token |-> k] :
             t \in {"OTHER_TYPE", Granted}, k \in {"abc", "tok123"}}

\* (mutant) the discriminator is not compared
is_granted_any_type(resp) ==
    ~resp.fail /\ resp.mapping /\ resp.token # None

\* the exchange succeeded: a JSON object whose response_type is the granted
\* one and that carries granted_token.token
is_granted(resp) ==
    ~resp.fail /\ resp.mapping /\ resp.response_type = Granted /\ resp.token # None

\* BaseClient.get_client_token() of a client that has its client id: the
\* POST, then client_token from granted_token.token, or BaseClientError
get_client_token ==
    /\ tcalls < MaxTokenCalls
    /\ client_id # Undefined
    /\ tcalls' = tcalls + 1
    /\ \E resp \in TokenAnswers :
          /\ tanswer' = resp
          /\ IF is_granted(resp)
             THEN client_token' = resp.token /\ tout' = "ok"
             ELSE tout' = "BaseClientError" /\ UNCHANGED client_token
    /\ UNCHANGED otherThanMgr

NextClient ==
    \/ assign_credentials
    \/ _get_auth_vars
    \/ get_client_token

SpecClient == InitClient /\ [][NextClient]_vars

\* C20: a call of _get_auth_vars made while access_token and client_id are
\* both populated sends no request and changes neither; and a call that
\* succeeded leaves both populated, so that the next call is such a call.
C20_BootstrapNoop ==
    [][bcalls' = bcalls + 1 =>
          /\ (access_token # Undefined /\ client_id # Undefined) =>
                /\ bnet' = bnet
                /\ access_token' = access_token /\ client_id' = client_id
                /\ bout' = "ok"
          /\ bout' = "ok" => (access_token' # Undefined /\ client_id' # Undefined)
      ]_vars

C20_Witness ==
    /\ bcalls = 2 /\ bnet = 1 /\ bout = "ok"
    /\ access_token = "tok1" /\ client_id = "id2"

\* C21: a get_client_token call sets client_token, to granted_token.token,
\* exactly when the answer is a JSON object with response_type
\* RESPONSE_GRANTED_TOKEN_RESPONSE and a granted_token.token; on a failed
\* request, another or no discriminator, or missing keys it raises
\* BaseClientError and client_token stays as it was (unset until a first
\* success).
C21_ClientToken ==
    [][tcalls' = tcalls + 1 =>
          IF /\ ~tanswer'.fail /\ tanswer'.mapping
             /\ tanswer'.response_type = "RESPONSE_GRANTED_TOKEN_RESPONSE"
             /\ tanswer'.token # None
          THEN client_token' = tanswer'.token /\ tout' = "ok"
          ELSE /\ tout' = "BaseClientError"
               /\ client_token' = client_token
               /\ (tcalls = 0 => client_token' = Undefined)
      ]_vars

C21_Witness ==
    /\ tcalls = 1 /\ tout = "BaseClientError"
    /\ tanswer.mapping /\ tanswer.response_type = Granted /\ tanswer.token = None
    /\ client_token = Undefined

(***************************************************************************)
(* The proof secret cache and the proof generator (get_latest_totp_secret  *)
(* and generate_totp of client.py), as the specification and               *)
(* spotapi_tests/test_client.py describe them.  Time is counted in steps.  *)
(***************************************************************************)
MaxTime == 3
CacheWindow == 2
MaxProofs == 2

\* _FALLBACK_SECRET: the hardcoded (version, secret)
FallbackSecret == [version |-> "fallback", secret |-> <<7, 7>>]

\* the answers to the GET of the secret list: the request raises, a non-OK
\* status, a map whose value is not a list, an empty map, or a map from a
\* version to a list of bytes (test_client.py:31-36, 302-327)
SecretAnswers ==
    {[kind |-> k, version |-> None, secret |-> << >>] :
        k \in {"exception", "not_ok", "not_list", "empty_map"}}
    \cup {[kind |-> "ok", version |-> "18", secret |-> <<1, 2, 3>>],
          [kind |-> "ok", version |-> "19", secret |-> <<4, 5, 6>>]}

RECURSIVE SumOf(_)
SumOf(q) == IF q = << >> THEN 0 ELSE Head(q) + SumOf(Tail(q))

\* the one-time proof over the secret with the time step as counter: a
\* number taken modulo a power of ten, written with leading zeros
proof_of(secret, t) ==
    LET h == (SumOf(secret) * 31 + t * 7) % 100
    IN << h \div 10, h % 10 >>

\* (mutant) a stored tuple is used whatever the time
cache_valid_forever(t) == secret_cache # NoCache

\* the stored tuple is used while the clock is before its expiry
cache_valid(t) == secret_cache # NoCache /\ t < cache_expiry

\* (mutant) a failed fetch is passed on to the caller
fetch_raises_passed(a) == a.kind # "ok"

\* get_latest_totp_secret catches every failure of the fetch
fetch_raises(a) == FALSE

\* what generate_totp returns for the tuple tup taken from `from`
Proof(tup, from) ==
    [version |-> tup.version, secret |-> tup.secret, from |-> from,
     proof |-> proof_of(tup.secret, now), raised |-> FALSE]

InitTotp ==
    /\ LoginBuilt("u@x", TRUE)
    /\ SolverBuilt(0)
    /\ RestoreBuilt("u@x", << >>)
    /\ MoreBuilt

\* generate_totp() entered by caller c: get_latest_totp_secret returns the
\* cached tuple at once, or starts the GET
generate_totp ==
    \E c \in Callers :
        /\ tpc[c] = "idle" /\ tdone[c] < MaxProofs
        /\ IF cache_valid(now)
           THEN /\ tres' = [tres EXCEPT ![c] = Proof(secret_cache, "cache")]
                /\ tdone' = [tdone EXCEPT ![c] = @ + 1]
                /\ UNCHANGED <<tpc, fetches>>
           ELSE /\ tpc' = [tpc EXCEPT ![c] = "fetching"]
                /\ fetches' = fetches + 1
                /\ UNCHANGED <<tres, tdone>>
        /\ UNCHANGED <<secret_cache, cache_expiry, now>>
        /\ UNCHANGED otherThanTotp

\* the GET of caller c ends: a good answer is stored with a new expiry and
\* returned, any other one gives the fallback
fetch_secret ==
    \E c \in Callers, a \in SecretAnswers :
        /\ tpc[c] = "fetching"
        /\ tpc' = [tpc EXCEPT ![c] = "idle"]
        /\ tdone' = [tdone EXCEPT ![c] = @ + 1]
        /\ IF a.kind = "ok"
           THEN /\ secret_cache' = [version |-> a.version, secret |-> a.secret]
                /\ cache_expiry' = now + CacheWindow
                /\ tres' = [tres EXCEPT ![c] =
                               Proof([version |-> a.version, secret |-> a.secret], "fetch")]
           ELSE /\ UNCHANGED <<secret_cache, cache_expiry>>
                /\ tres' = [tres EXCEPT ![c] =
                               IF fetch_raises(a)
                               THEN [NoProof EXCEPT !.raised = TRUE, !.from = a.kind]
                               ELSE Proof(FallbackSecret, a.kind)]
        /\ UNCHANGED <<now, fetches>>
        /\ UNCHANGED otherThanTotp

\* time passes
tick ==
    /\ now < MaxTime
    /\ now' = now + 1
    /\ UNCHANGED <<secret_cache, cache_expiry, fetches, tpc, tdone, tres>>
    /\ UNCHANGED otherThanTotp

NextTotp ==
    \/ generate_totp
    \/ fetch_secret
    \/ tick

SpecTotp == InitTotp /\ [][NextTotp]_vars

FetchFailures == {"exception", "not_ok", "not_list", "empty_map"}

\* C22: no call raises; a call whose fetch ended with a network exception, a
\* non-OK status, a non-list value or an empty map returns the hardcoded
\* fallback version with a proof computed from the fallback secret, and
\* every proof returned is a non-empty string of digits.
C22_NeverRaises ==
    \A c \in Callers :
        /\ ~tres[c].raised
        /\ tres[c].from \in FetchFailures =>
              /\ tres[c].version = FallbackSecret.version
              /\ tres[c].secret = FallbackSecret.secret
        /\ tres[c].from # "none" =>
              /\ tres[c].proof # << >>
              /\ \A i \in DOMAIN tres[c].proof : tres[c].proof[i] \in 0..9

C22_Witness ==
    /\ tres[1].from = "not_list" /\ tres[1].version = "fallback"
    /\ tres[2].from = "exception" /\ Len(tres[2].proof) > 0

MaxEntries == 2
MaxHashCalls == 2

OperationNames == {"op1", "op2"}
EntryKinds == {"query", "mutation"}
BundleEntries ==
    {[name |-> n, kind |-> k, hash |-> h] :
        n \in OperationNames, k \in EntryKinds, h \in {"h1", "h2"}}
Bundles == UNION {[1..n -> BundleEntries] : n \in 0..MaxEntries}

\* the positions of the entries of one name and kind
EntriesOf(bundle, name, kind) ==
    {i \in DOMAIN bundle : bundle[i].name = name /\ bundle[i].kind = kind}

Min(S) == CHOOSE i \in S : \A j \in S : i <= j

\* (mutant) the query entry is preferred
lookup_query_first(bundle, name) ==
    IF EntriesOf(bundle, name, "query") # {}
    THEN [out |-> "ok", hash |-> bundle[Min(EntriesOf(bundle, name, "query"))].hash]
    ELSE IF EntriesOf(bundle, name, "mutation") # {}
    THEN [out |-> "ok", hash |-> bundle[Min(EntriesOf(bundle, name, "mutation"))].hash]
    ELSE [out |-> "ValueError", hash |-> None]

\* the scan for the name followed by a discriminator: the mutation entry
\* when there is one, else the query entry, else ValueError
lookup(bundle, name) ==
    IF EntriesOf(bundle, name, "mutation") # {}
    THEN [out |-> "ok", hash |-> bundle[Min(EntriesOf(bundle, name, "mutation"))].hash]
    ELSE IF EntriesOf(bundle, name, "query") # {}
    THEN [out |-> "ok", hash |-> bundle[Min(EntriesOf(bundle, name, "query"))].hash]
    ELSE [out |-> "ValueError", hash |-> None]

InitHash ==
    /\ LoginBuilt("u@x", TRUE)
    /\ SolverBuilt(0)
    /\ RestoreBuilt("u@x", << >>)
    /\ HttpBuilt("Std", 0)
    /\ WsBuilt("WebsocketStreamer", None)
    /\ EvBuilt
    /\ ClientBuilt(Undefined, Undefined)
    /\ MgrBuilt /\ TotpBuilt /\ FlowBuilt
    /\ \E bundle \in Bundles, cached \in BOOLEAN :
          HashBuilt(IF cached THEN Kept(bundle) ELSE NoBundle, bundle)

\* BaseClient.part_hash(name): get_sha256_hash() downloads and keeps the
\* bundle text when none is kept, then the scan
part_hash ==
    /\ hcalls < MaxHashCalls
    /\ hcalls' = hcalls + 1
    /\ \E name \in OperationNames, h \in {"ok", "fail"} :
          IF ~raw_hashes.kept /\ h = "fail"
          THEN /\ hnet' = hnet + 1
               /\ hres' = [name |-> name, out |-> "BaseClientError", hash |-> None]
               /\ UNCHANGED raw_hashes
          ELSE /\ hnet' = IF ~raw_hashes.kept THEN hnet + 1 ELSE hnet
               /\ raw_hashes' = IF ~raw_hashes.kept THEN Kept(served) ELSE raw_hashes
               /\ hres' = [name |-> name, out |-> lookup(raw_hashes'.text, name).out,
                           hash |-> lookup(raw_hashes'.text, name).hash]
    /\ UNCHANGED served
    /\ UNCHANGED otherThanHash

NextHash == part_hash

SpecHash == InitHash /\ [][NextHash]_vars

\* C24: after a part_hash(name) call that had the bundle text: with a
\* mutation entry for the name in the text (with or without a query entry)
\* the call returned the hash of the mutation entry, with only a query
\* entry the hash of that, and with neither it raised ValueError.
C24_MutationFirst ==
    (hres.name # None /\ hres.out # "BaseClientError") =>
        /\ raw_hashes.kept
        /\ LET text == raw_hashes.text
               M == {i \in DOMAIN text : text[i].name = hres.name /\ text[i].kind = "mutation"}
               Q == {i \in DOMAIN text : text[i].name = hres.name /\ text[i].kind = "query"}
           IN CASE M # {} -> hres.out = "ok" /\ \E i \in M : hres.hash = text[i].hash
                [] M = {} /\ Q # {} ->
                      hres.out = "ok" /\ \E i \in Q : hres.hash = text[i].hash
                [] OTHER -> hres.out = "ValueError"

C24_Witness ==
    /\ hres.name = "op1" /\ hres.out = "ok" /\ hres.hash = "h2"
    /\ hnet = 1
    /\ raw_hashes.text = << [name |-> "op1", kind |-> "query", hash |-> "h1"],
                            [name |-> "op1", kind |-> "mutation", hash |-> "h2"] >>


(***************************************************************************)
(* Account creation and password reset (creator.py, password.py).          *)
(* Creator.register: signup session, v3 captcha, create-account POST and,  *)
(* on a "challenge" answer, AccountChallenge.defeat_challenge; then the    *)
(* saver.  Password.reset: reset session, v3 captcha, recovery POST.       *)
(***************************************************************************)
MaxFlowCalls == 2   \* register() / reset() calls on one configuration

Configs == [solver : BOOLEAN, saver : BOOLEAN]

\* the landing page of a flow: every key marker present, or one missing
\* (parse_json_string raises ValueError)
Pages == {"markers", "no_marker"}

\* the create-account answer: an empty body (response None), a body without
\* "challenge", a body with "challenge" and a "session_id":"..." string, or a
\* body with "challenge" and no such string
CreateAnswers == {"empty", "plain", "challenge", "challenge_no_session"}

\* the get-session answer of the challenge: a body with "url":"<URL>", or
\* without one
SessionUrls == {ChallengeUrl(sid, ch, << >>) : sid \in Ids, ch \in Ids}

\* the complete-creation answer: an empty body, a body with "success", or a
\* body without it
CompleteAnswers == {"empty", "success", "no_success"}

\* the flow's own exception: GeneratorError of creator.py, PasswordError of
\* password.py
OwnError(flow) == IF flow = "register" THEN "GeneratorError" ELSE "PasswordError"

\* what a request that did not answer OK raises: resp.fail is turned into the
\* flow's own exception by the caller, the retries running out is the client's
FlowHttpError(flow, r) == IF r = "fail" THEN OwnError(flow) ELSE "RequestError"

\* the running call ends by raising kind; clog holds pairs <<request or
\* call, captcha token it carries (None when it carries none)>>
CRaise(kind) ==
    /\ cpc' = "idle"
    /\ cout' = kind

\* creator.py:209-215: register hands whatever solve_captcha returned to
\* _process_register; there is no `if not captcha_token` check
register_token_rejected(token) == FALSE

\* (mutant) reset() passes a falsy captcha answer on
reset_token_passed(token) == FALSE

\* password.py:140-141: `if not captcha_response: raise PasswordError`
reset_token_rejected(token) == token # "token"

\* (mutant) defeat_challenge returns without completing the creation
challenge_done_early(answer) == TRUE

\* creator.py:316-321: _complete_challenge passes only on a response that did
\* not fail and that contains "success"
challenge_done(answer) == answer = "success"

InitCreator ==
    /\ LoginBuilt("u@x", TRUE)
    /\ SolverBuilt(0)
    /\ RestoreBuilt("u@x", << >>)
    /\ HttpBuilt("Std", 0)
    /\ WsBuilt("WebsocketStreamer", None)
    /\ EvBuilt
    /\ ClientBuilt(Undefined, Undefined)
    /\ MgrBuilt /\ TotpBuilt /\ HashBuilt(NoBundle, << >>)
    /\ ParseBuilt(<< >>, <<"k">>)
    /\ GuardBuilt(FALSE)
    /\ PlaylistBuilt({})
    /\ SavedBuilt
    /\ ConcBuilt
    /\ \E c \in Configs : CreatorBuilt(c)

\* Creator.register() entered (creator.py:190)
register ==
    /\ cpc = "idle" /\ ccalls < MaxFlowCalls
    /\ ccalls' = ccalls + 1
    /\ cflow' = "register"
    /\ cpc' = "get_session"
    /\ cout' = "running"
    /\ clog' = << >>
    /\ captcha_token' = None
    /\ raw_response' = None
    /\ challenge_url' = NoUrl
    /\ completed' = None
    /\ UNCHANGED cfg
    /\ UNCHANGED otherThanCreator

\* Password.reset() entered (password.py:116)
reset ==
    /\ cpc = "idle" /\ ccalls < MaxFlowCalls
    /\ ccalls' = ccalls + 1
    /\ cflow' = "reset"
    /\ cpc' = "get_session"
    /\ cout' = "running"
    /\ clog' = << >>
    /\ captcha_token' = None
    /\ raw_response' = None
    /\ challenge_url' = NoUrl
    /\ completed' = None
    /\ UNCHANGED cfg
    /\ UNCHANGED otherThanCreator

\* creator.py:94-107 and password.py:77-90: _get_session, the GET of the
\* landing page and the key markers read out of it
Creator_get_session ==
    /\ cpc = "get_session"
    /\ clog' = Append(clog, <<"GET landing", None>>)
    /\ \E r \in HttpResults, page \in Pages :
          IF r # "ok" THEN CRaise(FlowHttpError(cflow, r))
          ELSE IF page = "no_marker" THEN CRaise("ValueError")
          ELSE cpc' = "solve" /\ UNCHANGED cout
    /\ UNCHANGED <<cflow, cfg, ccalls, captcha_token, raw_response, challenge_url, completed>>
    /\ UNCHANGED otherThanCreator

\* creator.py:206-215 and password.py:131-141: the solver check and the v3
\* captcha
solve_v3 ==
    /\ cpc = "solve"
    /\ IF ~cfg.solver
       THEN CRaise(OwnError(cflow)) /\ UNCHANGED <<clog, captcha_token>>   \* Solver not set
       ELSE /\ clog' = Append(clog, <<"SOLVE v3", None>>)
            /\ \E t \in SolveResults :
                  IF t \notin {"token", "empty"}
                  THEN CRaise(t) /\ UNCHANGED captcha_token
                  ELSE /\ captcha_token' = t
                       /\ IF cflow = "register"
                          THEN IF register_token_rejected(t)
                               THEN CRaise("GeneratorError")
                               ELSE cpc' = "create" /\ UNCHANGED cout
                          ELSE IF reset_token_rejected(t)
                               THEN CRaise("PasswordError")    \* Could not solve captcha
                               ELSE cpc' = "recover" /\ UNCHANGED cout
    /\ UNCHANGED <<cflow, cfg, ccalls, raw_response, challenge_url, completed>>
    /\ UNCHANGED otherThanCreator

\* password.py:101-110 and 146-150: _reset_password, after which reset returns
_reset_password ==
    /\ cpc = "recover"
    /\ clog' = Append(clog, <<"POST recovery", captcha_token>>)
    /\ \E r \in HttpResults :
          IF r # "ok" THEN CRaise(FlowHttpError(cflow, r))
          ELSE cpc' = "idle" /\ cout' = "returned"
    /\ UNCHANGED <<cflow, cfg, ccalls, captcha_token, raw_response, challenge_url, completed>>
    /\ UNCHANGED otherThanCreator

\* creator.py:186-191 with AccountChallenge.__init__ (248-255):
\* _process_register, the create-account POST and the "challenge" test
_process_register ==
    /\ cpc = "create"
    /\ clog' = Append(clog, <<"POST create", captcha_token>>)
    /\ \E r \in HttpResults, a \in CreateAnswers :
          IF r # "ok" THEN CRaise(FlowHttpError(cflow, r)) /\ UNCHANGED raw_response
          ELSE /\ raw_response' = a
               /\ CASE a = "empty" -> CRaise("TypeError")      \* "challenge" in None
                    [] a = "plain" -> cpc' = "save" /\ UNCHANGED cout
                    [] a = "challenge_no_session" -> CRaise("ValueError")
                    [] a = "challenge" -> cpc' = "challenge_session" /\ UNCHANGED cout
    /\ UNCHANGED <<cflow, cfg, ccalls, captcha_token, challenge_url, completed>>
    /\ UNCHANGED otherThanCreator

\* creator.py:257-274: AccountChallenge._get_session
AccountChallenge_get_session ==
    /\ cpc = "challenge_session"
    /\ clog' = Append(clog, <<"POST get-session", None>>)
    /\ \E r \in HttpResults :
          IF r # "ok" THEN CRaise(FlowHttpError(cflow, r)) /\ UNCHANGED challenge_url
          ELSE \/ CRaise("ValueError") /\ UNCHANGED challenge_url    \* no "url":"
               \/ \E u \in SessionUrls :
                     /\ challenge_url' = u
                     /\ cpc' = "challenge_solve"
                     /\ UNCHANGED cout
    /\ UNCHANGED <<cflow, cfg, ccalls, captcha_token, raw_response, completed>>
    /\ UNCHANGED otherThanCreator

\* creator.py:336-345: defeat_challenge's solver check and the v2 captcha
solve_v2 ==
    /\ cpc = "challenge_solve"
    /\ IF ~cfg.solver
       THEN CRaise("GeneratorError") /\ UNCHANGED <<clog, captcha_token>>  \* Solver not set
       ELSE /\ clog' = Append(clog, <<"SOLVE v2", None>>)
            /\ \E t \in SolveResults :
                  IF t \notin {"token", "empty"}
                  THEN CRaise(t) /\ UNCHANGED captcha_token
                  ELSE /\ captcha_token' = t
                       /\ IF register_token_rejected(t)
                          THEN CRaise("GeneratorError")
                          ELSE cpc' = "challenge_submit" /\ UNCHANGED cout
    /\ UNCHANGED <<cflow, cfg, ccalls, raw_response, challenge_url, completed>>
    /\ UNCHANGED otherThanCreator

\* creator.py:285-299: AccountChallenge._submit_challenge
AccountChallenge_submit_challenge ==
    /\ cpc = "challenge_submit"
    /\ IF parse_challenge_url(challenge_url).err # None
       THEN CRaise(parse_challenge_url(challenge_url).err) /\ UNCHANGED clog
       ELSE /\ clog' = Append(clog, <<"POST invoke", captcha_token>>)
            /\ \E r \in HttpResults :
                  IF r # "ok" THEN CRaise(FlowHttpError(cflow, r))
                  ELSE cpc' = "challenge_complete" /\ UNCHANGED cout
    /\ UNCHANGED <<cflow, cfg, ccalls, captcha_token, raw_response, challenge_url, completed>>
    /\ UNCHANGED otherThanCreator

\* creator.py:311-321: AccountChallenge._complete_challenge, after which
\* defeat_challenge and _process_register return
AccountChallenge_complete_challenge ==
    /\ cpc = "challenge_complete"
    /\ clog' = Append(clog, <<"POST complete", None>>)
    /\ \E r \in HttpResults, a \in CompleteAnswers :
          IF r # "ok" THEN CRaise(FlowHttpError(cflow, r)) /\ UNCHANGED completed
          ELSE /\ completed' = a
               /\ IF a = "empty" THEN CRaise("TypeError")       \* "success" not in None
                  ELSE IF challenge_done(a) THEN cpc' = "save" /\ UNCHANGED cout
                  ELSE CRaise("GeneratorError")
    /\ UNCHANGED <<cflow, cfg, ccalls, captcha_token, raw_response, challenge_url>>
    /\ UNCHANGED otherThanCreator

\* creator.py:218-228: the saver, whose exceptions are logged and dropped
register_save ==
    /\ cpc = "save"
    /\ clog' = IF cfg.saver THEN Append(clog, <<"SAVE", None>>) ELSE clog
    /\ cpc' = "idle"
    /\ cout' = "returned"
    /\ UNCHANGED <<cflow, cfg, ccalls, captcha_token, raw_response, challenge_url, completed>>
    /\ UNCHANGED otherThanCreator

NextCreator ==
    \/ register
    \/ reset
    \/ Creator_get_session
    \/ solve_v3
    \/ _reset_password
    \/ _process_register
    \/ AccountChallenge_get_session
    \/ solve_v2
    \/ AccountChallenge_submit_challenge
    \/ AccountChallenge_complete_challenge
    \/ register_save

SpecCreator == InitCreator /\ [][NextCreator]_vars

Saved == \E i \in 1..Len(clog) : clog[i] = <<"SAVE", None>>

Challenged == raw_response \in {"challenge", "challenge_no_session"}

RegisterEnded == cflow = "register" /\ cpc = "idle" /\ cout # "none"

\* C25 (as claimed): when the create-account answer holds the "challenge"
\* marker, the saver is invoked only after complete-creation succeeded, and a
\* register() that does not get through the challenge raises GeneratorError
\* with nothing saved.
C25_ChallengeBeforeSave ==
    (cflow = "register" /\ Challenged) =>
        /\ Saved => completed = "success"
        /\ (RegisterEnded /\ completed # "success") => (cout = "GeneratorError" /\ ~Saved)

\* C25 (what holds): on a "challenge" answer the saver is invoked only after
\* complete-creation succeeded, and a register() that raised saved nothing.
C25_SavedAfterComplete ==
    (cflow = "register" /\ Challenged) =>
        /\ Saved => (completed = "success" /\ clog[Len(clog) - 1] = <<"POST complete", None>>)
        /\ (RegisterEnded /\ cout # "returned") => ~Saved
        /\ (RegisterEnded /\ cout = "returned") => completed = "success"

C25_Witness ==
    /\ RegisterEnded /\ cout = "returned" /\ raw_response = "challenge"
    /\ completed = "success" /\ Saved
    /\ clog[Len(clog) - 1] = <<"POST complete", None>>

\* the submission requests that carry the captcha token, with a falsy token
TokenlessSubmissions ==
    {<<"POST create", "empty">>, <<"POST recovery", "empty">>, <<"POST invoke", "empty">>}

\* C26: when the solver is missing or yields no token, the flow raises its
\* own error before the submission request that needs the token is sent.
C26_NoTokenNoSubmission ==
    /\ \A i \in 1..Len(clog) : clog[i] \notin TokenlessSubmissions
    /\ ~cfg.solver =>
          \A i \in 1..Len(clog) : clog[i][1] \notin {"POST create", "POST recovery", "POST invoke"}
    /\ (cpc = "idle" /\ cflow # "none" /\ captcha_token = "empty") => cout = OwnError(cflow)

\* C26 (what holds): Password.reset sends no recovery POST without a token.
C26_ResetNeedsToken ==
    cflow = "reset" =>
        /\ \A i \in 1..Len(clog) : clog[i] # <<"POST recovery", "empty">>
        /\ (cpc = "idle" /\ captcha_token = "empty") => cout = "PasswordError"

C26_Witness ==
    /\ cflow = "reset" /\ cpc = "idle" /\ captcha_token = "empty"
    /\ cout = "PasswordError" /\ clog = <<<<"GET landing", None>>, <<"SOLVE v3", None>>>>


(***************************************************************************)
(* parse_json_string (spotapi_utils/strings.py:57-79): the textual scan    *)
(* for a key marker, on texts put together from a few fragments.           *)
(***************************************************************************)
MaxFragments == 3   \* fragments a text is put together from

Quote == "\""

\* the fragments: the quoted marker of the key k, the same marker behind
\* another key that ends in k, and loose characters
Fragments ==
    { <<Quote, "k", Quote, ":", Quote>>,
      <<Quote, "v", "k", Quote, ":", Quote>>,
      <<"v", "k", Quote, ":", Quote>>,
      <<"a", Quote>>, <<"b">>, <<Quote>>, <<"k">>, <<":">> }

RECURSIVE Concat(_)
Concat(fs) == IF fs = << >> THEN << >> ELSE Head(fs) \o Concat(Tail(fs))

Texts == {Concat(fs) : fs \in UNION {[1..n -> Fragments] : n \in 0..MaxFragments}}

Keys == {<<"k">>, <<"v", "k">>}

\* (mutant) the value starts one character early, on the marker's last quote
parse_json_string_early(text, s) ==
    LET start_index == Find(text, s \o <<Quote, ":", Quote>>, 1)
        value_start_index == start_index + Len(s) + 2
        value_end_index == Find(text, <<Quote>>, value_start_index)
    IN  IF start_index = 0 THEN [out |-> "ValueError", value |-> << >>]
        ELSE IF value_end_index = 0 THEN [out |-> "ValueError", value |-> << >>]
        ELSE [out |-> "returned",
              value |-> SubSeq(text, value_start_index, value_end_index - 1)]

\* strings.py:69-79, with 1-based indices and 0 for str.find's -1: the
\* marker searched for is s":" , the key without an opening quote
parse_json_string(text, s) ==
    LET start_index == Find(text, s \o <<Quote, ":", Quote>>, 1)
        value_start_index == start_index + Len(s) + 3
        value_end_index == Find(text, <<Quote>>, value_start_index)
    IN  IF start_index = 0 THEN [out |-> "ValueError", value |-> << >>]
        ELSE IF value_end_index = 0 THEN [out |-> "ValueError", value |-> << >>]
        ELSE [out |-> "returned",
              value |-> SubSeq(text, value_start_index, value_end_index - 1)]

InitParse ==
    /\ LoginBuilt("u@x", TRUE)
    /\ SolverBuilt(0)
    /\ RestoreBuilt("u@x", << >>)
    /\ HttpBuilt("Std", 0)
    /\ WsBuilt("WebsocketStreamer", None)
    /\ EvBuilt
    /\ ClientBuilt(Undefined, Undefined)
    /\ MgrBuilt /\ TotpBuilt /\ HashBuilt(NoBundle, << >>)
    /\ CreatorBuilt([solver |-> TRUE, saver |-> TRUE])
    /\ GuardBuilt(FALSE)
    /\ PlaylistBuilt({})
    /\ SavedBuilt
    /\ ConcBuilt
    /\ \E text \in Texts, k \in Keys : ParseBuilt(text, k)

\* one call parse_json_string(b, s)
parse ==
    /\ parsed = NotParsed
    /\ parsed' = parse_json_string(ptext, pkey)
    /\ UNCHANGED <<ptext, pkey>>
    /\ UNCHANGED otherThanParse

NextParse == parse

SpecParse == InitParse /\ [][NextParse]_vars

\* the marker of the claim: the key enclosed in double quotes, then :"
QuotedMarker(s) == <<Quote>> \o s \o <<Quote, ":", Quote>>

\* text[i..] is marker, then value, then a double quote
ValueAt(text, marker, i, value) ==
    /\ StartsAt(text, marker, i)
    /\ StartsAt(text, value \o <<Quote>>, i + Len(marker))
    /\ \A n \in 1..Len(value) : value[n] # Quote

\* the first occurrence of marker in text is at i
FirstAt(text, marker, i) ==
    /\ StartsAt(text, marker, i)
    /\ \A j \in 1..(i - 1) : ~StartsAt(text, marker, j)

\* C27 (as claimed): the call returns the characters between the first
\* occurrence of "KEY":" and the next double quote, and raises ValueError
\* when that marker is absent or no double quote follows it.
C27_QuotedMarker ==
    parsed # NotParsed =>
        IF \E i \in 1..Len(ptext) : \E n \in 0..Len(ptext) :
              /\ FirstAt(ptext, QuotedMarker(pkey), i)
              /\ i + Len(QuotedMarker(pkey)) + n <= Len(ptext)
              /\ ValueAt(ptext, QuotedMarker(pkey), i, SubSeq(ptext, i + Len(QuotedMarker(pkey)),
                                                         i + Len(QuotedMarker(pkey)) + n - 1))
        THEN \E i \in 1..Len(ptext) :
                /\ FirstAt(ptext, QuotedMarker(pkey), i)
                /\ parsed.out = "returned"
                /\ ValueAt(ptext, QuotedMarker(pkey), i, parsed.value)
        ELSE parsed.out = "ValueError"

\* C27 (what holds): the same with the marker KEY":" , the key followed by
\* a double quote but not preceded by one.
C27_UnquotedMarker ==
    parsed # NotParsed =>
        IF \E i \in 1..Len(ptext) : \E n \in 0..Len(ptext) :
              /\ FirstAt(ptext, pkey \o <<Quote, ":", Quote>>, i)
              /\ i + Len(pkey) + 3 + n <= Len(ptext)
              /\ ValueAt(ptext, pkey \o <<Quote, ":", Quote>>, i,
                         SubSeq(ptext, i + Len(pkey) + 3, i + Len(pkey) + 3 + n - 1))
        THEN \E i \in 1..Len(ptext) :
                /\ FirstAt(ptext, pkey \o <<Quote, ":", Quote>>, i)
                /\ parsed.out = "returned"
                /\ ValueAt(ptext, pkey \o <<Quote, ":", Quote>>, i, parsed.value)
        ELSE parsed.out = "ValueError"

\* "vk":"a""k":" read for the key k yields a
C27_Witness ==
    /\ pkey = <<"k">>
    /\ ptext = <<Quote, "v", "k", Quote, ":", Quote, "a", Quote>>
             \o <<Quote, "k", Quote, ":", Quote>>
    /\ parsed = [out |-> "returned", value |-> <<"a">>]


(***************************************************************************)
(* The logged-in guards: the constructors of WebsocketStreamer, User,      *)
(* PrivatePlaylist and Artist, and Login.save, on one Login object whose   *)
(* logged_in changes over time.                                            *)
(***************************************************************************)
MaxOps == 4         \* constructions and saves attempted on one Login

\* (mutant) the guard is missing
must_be_logged_in_unchecked(given, logged) == FALSE

\* websocket.py:50, user.py:31, playlist.py:133, login.py:105:
\* `if not login.logged_in`; artist.py:50: `if login and not login.logged_in`
\* (given is FALSE for Artist() built without a login)
must_be_logged_in(given, logged) == given /\ ~logged

\* websocket.py:53-79: what the constructor does once past the guard: the
\* session and client-token requests, then the socket
StreamerEffects == <<"GET session", "POST clienttoken", "socket">>

InitGuard ==
    /\ LoginBuilt("u@x", TRUE)
    /\ SolverBuilt(0)
    /\ RestoreBuilt("u@x", << >>)
    /\ HttpBuilt("Std", 0)
    /\ WsBuilt("WebsocketStreamer", None)
    /\ EvBuilt
    /\ ClientBuilt(Undefined, Undefined)
    /\ MgrBuilt /\ TotpBuilt /\ HashBuilt(NoBundle, << >>)
    /\ CreatorBuilt([solver |-> TRUE, saver |-> TRUE])
    /\ ParseBuilt(<< >>, <<"k">>)
    /\ PlaylistBuilt({})
    /\ SavedBuilt
    /\ ConcBuilt
    /\ \E a \in BOOLEAN : GuardBuilt(a)

\* login.py:181-183: login.logged_in = value
Login_logged_in ==
    /\ \E value \in BOOLEAN : _authorized' = value /\ value # _authorized
    /\ UNCHANGED <<effects, objects, gout, gops>>
    /\ UNCHANGED otherThanGuard

\* websocket.py:41-79: WebsocketStreamer(login)
WebsocketStreamer_new ==
    /\ gops < MaxOps /\ gops' = gops + 1
    /\ IF must_be_logged_in(TRUE, _authorized)
       THEN /\ gout' = [op |-> "WebsocketStreamer", out |-> "ValueError"]
            /\ UNCHANGED <<effects, objects>>
       ELSE /\ effects' = effects \o StreamerEffects
            /\ objects' = objects \cup {"WebsocketStreamer"}
            /\ gout' = [op |-> "WebsocketStreamer", out |-> "returned"]
    /\ UNCHANGED _authorized
    /\ UNCHANGED otherThanGuard

\* user.py:25-37: User(login)
User_new ==
    /\ gops < MaxOps /\ gops' = gops + 1
    /\ IF must_be_logged_in(TRUE, _authorized)
       THEN /\ gout' = [op |-> "User", out |-> "ValueError"]
            /\ UNCHANGED objects
       ELSE /\ objects' = objects \cup {"User"}
            /\ gout' = [op |-> "User", out |-> "returned"]
    /\ UNCHANGED <<_authorized, effects>>
    /\ UNCHANGED otherThanGuard

\* playlist.py:132-143: PrivatePlaylist(login, playlist), which builds a User
\* and a BaseClient
PrivatePlaylist_new ==
    /\ gops < MaxOps /\ gops' = gops + 1
    /\ IF must_be_logged_in(TRUE, _authorized)
       THEN /\ gout' = [op |-> "PrivatePlaylist", out |-> "ValueError"]
            /\ UNCHANGED objects
       ELSE /\ objects' = objects \cup {"PrivatePlaylist", "User"}
            /\ gout' = [op |-> "PrivatePlaylist", out |-> "returned"]
    /\ UNCHANGED <<_authorized, effects>>
    /\ UNCHANGED otherThanGuard

\* artist.py:34-54: Artist(login) and Artist()
Artist_new ==
    /\ gops < MaxOps /\ gops' = gops + 1
    /\ \E given \in BOOLEAN :
          IF must_be_logged_in(given, _authorized)
          THEN /\ gout' = [op |-> "Artist", out |-> "ValueError"]
               /\ UNCHANGED objects
          ELSE /\ objects' = objects \cup {IF given THEN "Artist" ELSE "Artist()"}
               /\ gout' = [op |-> "Artist", out |-> "returned"]
    /\ UNCHANGED <<_authorized, effects>>
    /\ UNCHANGED otherThanGuard

\* login.py:95-116: login.save(saver)
Login_save ==
    /\ gops < MaxOps /\ gops' = gops + 1
    /\ IF must_be_logged_in(TRUE, _authorized)
       THEN /\ gout' = [op |-> "save", out |-> "ValueError"]
            /\ UNCHANGED effects
       ELSE /\ effects' = Append(effects, "saver.save")
            /\ gout' = [op |-> "save", out |-> "returned"]
    /\ UNCHANGED <<_authorized, objects>>
    /\ UNCHANGED otherThanGuard

NextGuard ==
    \/ Login_logged_in
    \/ WebsocketStreamer_new
    \/ User_new
    \/ PrivatePlaylist_new
    \/ Artist_new
    \/ Login_save

SpecGuard == InitGuard /\ [][NextGuard]_vars

\* the objects that act on behalf of a login
SessionObjects == {"WebsocketStreamer", "User", "PrivatePlaylist", "Artist"}

\* C28: while logged_in is false, a construction of WebsocketStreamer, User,
\* PrivatePlaylist or Artist on the login, and Login.save, raise ValueError
\* with no network, socket or saver call made and no object constructed.
C28_GuardedByLogin ==
    [][(~_authorized /\ gops' # gops)
          => /\ effects' = effects
             /\ objects' \cap SessionObjects = objects \cap SessionObjects
             /\ \/ gout'.out = "ValueError"
                \/ gout'.op = "Artist" /\ objects' = objects \cup {"Artist()"}]_vars

C28_Witness ==
    /\ ~_authorized /\ gops = MaxOps
    /\ gout = [op |-> "WebsocketStreamer", out |-> "ValueError"]
    /\ effects = <<"saver.save">>
    /\ objects = {"User"}


(***************************************************************************)
(* PrivatePlaylist (playlist.py:118-305): set_playlist, add_to_library,    *)
(* remove_from_library and create_playlist on one object, and the server's *)
(* view of the playlists created and of the user's rootlist.               *)
(***************************************************************************)
MaxPlaylistCalls == 3   \* calls made on one PrivatePlaylist

\* the ids the server hands out for new playlists, and a playlist of old
NewIds == {"n1", "n2", "n3"}
OldIds == {"old"}

\* the staging answer: not text (a JSON object, or an empty body: None), text
\* without a playlist URI, or text with the URI of the playlist just created
StageAnswers == {"not_text", "no_uri", "uri"}

\* (mutant) the staticmethod as written, without @enforce: the id of the URI
\* (the ids of the model are their own URIs)
_extract_playlist_id_static(uri) == uri

\* playlist.py:145-147 under @enforce (playlist.py:118, annotations.py:130-
\* 141): enforce replaces the staticmethod by a plain wrapped function, so
\* self._extract_playlist_id(uri) binds self as uri and the wrapper's
\* sig.bind(self, uri) raises TypeError (annotations.py:32)
_extract_playlist_id(uri) == "TypeError"

\* playlist.py:172: the item of the library change is
\* f"spotify:playlist:{self.playlist_id}", whatever the caller just staged
library_uri(own, given) == own

\* playlist.py:157-199: _send_library_change(kind) for the playlist `given`
\* the caller means, answered r: the outcome and the rootlist afterwards
_send_library_change(kind, given, r) ==
    IF ~_playlist
    THEN [out |-> "ValueError", lib |-> library, sent |-> FALSE]   \* Playlist not set
    ELSE IF r = "transport" THEN [out |-> "RequestError", lib |-> library, sent |-> TRUE]
    ELSE IF r = "fail" THEN [out |-> "PlaylistError", lib |-> library, sent |-> TRUE]
    ELSE [out |-> "returned", sent |-> TRUE,
          lib |-> IF kind = 2 THEN library \cup {library_uri(playlist_id, given)}
                  ELSE library \ {library_uri(playlist_id, given)}]

InitPlaylist ==
    /\ LoginBuilt("u@x", TRUE)
    /\ SolverBuilt(0)
    /\ RestoreBuilt("u@x", << >>)
    /\ HttpBuilt("Std", 0)
    /\ WsBuilt("WebsocketStreamer", None)
    /\ EvBuilt
    /\ ClientBuilt(Undefined, Undefined)
    /\ MgrBuilt /\ TotpBuilt /\ HashBuilt(NoBundle, << >>)
    /\ CreatorBuilt([solver |-> TRUE, saver |-> TRUE])
    /\ ParseBuilt(<< >>, <<"k">>)
    /\ GuardBuilt(FALSE)
    /\ SavedBuilt
    /\ ConcBuilt
    /\ \E lib \in SUBSET OldIds : PlaylistBuilt(lib)

\* playlist.py:149-155: set_playlist(playlist)
set_playlist ==
    /\ plcalls < MaxPlaylistCalls /\ plcalls' = plcalls + 1
    /\ \E playlist \in OldIds \cup created :
          /\ plog' = << >>
          /\ IF _extract_playlist_id(playlist) = "TypeError"
             THEN /\ plout' = [op |-> "set_playlist", out |-> "TypeError",
                               uri |-> None, staged |-> None]
                  /\ UNCHANGED <<playlist_id, _playlist>>
             ELSE /\ playlist_id' = _extract_playlist_id(playlist)
                  /\ _playlist' = TRUE
                  /\ plout' = [op |-> "set_playlist", out |-> "returned",
                               uri |-> None, staged |-> None]
    /\ UNCHANGED <<created, library>>
    /\ UNCHANGED otherThanPlaylist

\* playlist.py:201-211: add_to_library() and remove_from_library()
change_library ==
    /\ plcalls < MaxPlaylistCalls /\ plcalls' = plcalls + 1
    /\ \E kind \in {2, 3}, r \in HttpResults :
          LET c == _send_library_change(kind, playlist_id, r)
          IN  /\ library' = c.lib
              /\ plog' = IF c.sent THEN <<"POST rootlist/changes">> ELSE << >>
              /\ plout' = [op |-> IF kind = 2 THEN "add_to_library" ELSE "remove_from_library",
                           out |-> c.out, uri |-> None, staged |-> None]
    /\ UNCHANGED <<playlist_id, _playlist, created>>
    /\ UNCHANGED otherThanPlaylist

\* playlist.py:260-305: create_playlist(name): _stage_create_playlist, then
\* _send_library_change(kind=2), then the staged URI is returned
create_playlist ==
    /\ plcalls < MaxPlaylistCalls /\ plcalls' = plcalls + 1
    /\ \E r \in HttpResults, a \in StageAnswers, r2 \in HttpResults :
          IF r # "ok"
          THEN /\ plog' = <<"POST playlist">>
               /\ plout' = [op |-> "create_playlist", uri |-> None, staged |-> None,
                            out |-> IF r = "fail" THEN "PlaylistError" ELSE "RequestError"]
               /\ UNCHANGED <<created, library>>
          ELSE \E new \in NewIds \ created :
                  /\ created' = created \cup {new}
                  /\ IF a # "uri"
                     THEN /\ plog' = <<"POST playlist">>
                          /\ plout' = [op |-> "create_playlist", uri |-> None, staged |-> new,
                                       out |-> IF a = "not_text" THEN "TypeError"
                                               ELSE "PlaylistError"]
                          /\ UNCHANGED library
                     ELSE LET c == _send_library_change(2, new, r2)
                          IN  /\ library' = c.lib
                              /\ plog' = IF c.sent
                                         THEN <<"POST playlist", "POST rootlist/changes">>
                                         ELSE <<"POST playlist">>
                              /\ plout' = [op |-> "create_playlist", out |-> c.out,
                                           staged |-> new,
                                           uri |-> IF c.out = "returned" THEN new ELSE None]
    /\ UNCHANGED <<playlist_id, _playlist>>
    /\ UNCHANGED otherThanPlaylist

NextPlaylist ==
    \/ set_playlist
    \/ change_library
    \/ create_playlist

SpecPlaylist == InitPlaylist /\ [][NextPlaylist]_vars

\* C29: a create_playlist whose staging POST yielded the new playlist's URI
\* and whose library request did not fail returns that URI and has put that
\* playlist into the user's library.
C29_NewPlaylistInLibrary ==
    [][(plcalls' # plcalls /\ plout'.op = "create_playlist"
          /\ plog' # << >> /\ created' # created
          /\ plout'.out \notin {"PlaylistError", "RequestError", "TypeError"})
        => /\ plout'.out = "returned"
           /\ plout'.uri = plout'.staged
           /\ plout'.uri \in library']_vars

\* C29 (what holds): a create_playlist that staged a playlist leaves the
\* library as it was; when the staging answer held the URI, it raises
\* ValueError (Playlist not set) after the staging POST alone.
C29_StagedNotAdded ==
    [][(plcalls' # plcalls /\ plout'.op = "create_playlist" /\ created' # created)
        => /\ library' = library
           /\ plout'.out \in {"ValueError", "PlaylistError", "TypeError"}
           /\ plout'.out = "ValueError" => plog' = <<"POST playlist">>]_vars

C29_Witness ==
    /\ plout = [op |-> "create_playlist", out |-> "ValueError", uri |-> None, staged |-> "n2"]
    /\ created = {"n1", "n2"}
    /\ library = {"old"}
    /\ plog = <<"POST playlist">>

(***************************************************************************)
(* The socket lock.  keep_alive (websocket.py:158-166) and get_packet      *)
(* (168-177) each touch the socket inside `with self.rlock`; _listen       *)
(* (status.py:276-284) calls get_packet in a loop on its own thread.       *)
(***************************************************************************)
MaxIntervals == 2
MaxArrivals == 2
MaxGetPackets == 1

\* (mutant) the socket is touched without taking the lock
rlock_acquired_unlocked(holder) == TRUE

\* websocket.py:163, 174: `with self.rlock` goes on once the lock is free
rlock_acquired(holder) == holder = "free"

\* ws.recv() returns once a frame is there and raises once the connection is closed
recv_returns == inbound > 0 \/ sock = "closed"

InitSock ==
    /\ LoginBuilt("u@x", TRUE)
    /\ SolverBuilt(0)
    /\ RestoreBuilt("u@x", << >>)
    /\ HttpBuilt("Std", 0)
    /\ WsBuilt("EventManager", None)
    /\ EvBuilt
    /\ ClientBuilt(Undefined, Undefined)
    /\ LaterBuilt

\* websocket.py:162: time.sleep(60) returns, the interval has elapsed
keep_alive_sleep ==
    /\ kpc = "sleep"
    /\ intervals < MaxIntervals
    /\ intervals' = intervals + 1
    /\ due' = due + 1
    /\ kpc' = "acquire"
    /\ UNCHANGED <<rlock, sock, inbound, arrived, lpc, upc, gets, pings>>
    /\ UNCHANGED otherThanSock

\* websocket.py:163: keep_alive takes the lock
keep_alive_acquire ==
    /\ kpc = "acquire"
    /\ rlock_acquired(rlock)
    /\ rlock' = "keep_alive"
    /\ kpc' = "send"
    /\ UNCHANGED <<sock, inbound, arrived, lpc, upc, gets, intervals, due, pings>>
    /\ UNCHANGED otherThanSock

\* websocket.py:164-166: ws.send of the ping, the lock released on the way out;
\* on a closed connection send raises and the thread ends
keep_alive_send ==
    /\ kpc = "send"
    /\ rlock' = IF rlock = "keep_alive" THEN "free" ELSE rlock
    /\ IF sock = "open"
       THEN pings' = pings + 1 /\ due' = 0 /\ kpc' = "sleep"
       ELSE kpc' = "stopped" /\ UNCHANGED <<pings, due>>
    /\ UNCHANGED <<sock, inbound, arrived, lpc, upc, gets, intervals>>
    /\ UNCHANGED otherThanSock

\* status.py:279 into websocket.py:174: _listen's get_packet takes the lock
listen_acquire ==
    /\ lpc = "acquire"
    /\ rlock_acquired(rlock)
    /\ rlock' = "listener"
    /\ lpc' = "recv"
    /\ UNCHANGED <<sock, inbound, arrived, kpc, upc, gets, intervals, due, pings>>
    /\ UNCHANGED otherThanSock

\* websocket.py:175-177 and status.py:280-284: ws.recv() returns a frame, the
\* lock is released, the frame is dispatched and the loop calls get_packet
\* again; on a closed connection recv raises and the thread ends
listen_recv ==
    /\ lpc = "recv"
    /\ recv_returns
    /\ rlock' = IF rlock = "listener" THEN "free" ELSE rlock
    /\ IF inbound > 0
       THEN inbound' = inbound - 1 /\ lpc' = "acquire"
       ELSE lpc' = "stopped" /\ UNCHANGED inbound
    /\ UNCHANGED <<sock, arrived, kpc, upc, gets, intervals, due, pings>>
    /\ UNCHANGED otherThanSock

\* another thread calls get_packet
get_packet ==
    /\ upc = "idle"
    /\ gets < MaxGetPackets
    /\ gets' = gets + 1
    /\ upc' = "acquire"
    /\ UNCHANGED <<rlock, sock, inbound, arrived, kpc, lpc, intervals, due, pings>>
    /\ UNCHANGED otherThanSock

\* websocket.py:174: that call takes the lock
get_packet_acquire ==
    /\ upc = "acquire"
    /\ rlock_acquired(rlock)
    /\ rlock' = "caller"
    /\ upc' = "recv"
    /\ UNCHANGED <<sock, inbound, arrived, kpc, lpc, gets, intervals, due, pings>>
    /\ UNCHANGED otherThanSock

\* websocket.py:175-177: its ws.recv() returns or raises, the lock is released
get_packet_recv ==
    /\ upc = "recv"
    /\ recv_returns
    /\ rlock' = IF rlock = "caller" THEN "free" ELSE rlock
    /\ inbound' = IF inbound > 0 THEN inbound - 1 ELSE inbound
    /\ upc' = "idle"
    /\ UNCHANGED <<sock, arrived, kpc, lpc, gets, intervals, due, pings>>
    /\ UNCHANGED otherThanSock

\* the server sends a frame
frame_arrives ==
    /\ sock = "open"
    /\ arrived < MaxArrivals
    /\ arrived' = arrived + 1
    /\ inbound' = inbound + 1
    /\ UNCHANGED <<rlock, sock, kpc, lpc, upc, gets, intervals, due, pings>>
    /\ UNCHANGED otherThanSock

\* the connection is closed (by the server, or ws.close at exit)
connection_closes ==
    /\ sock = "open"
    /\ sock' = "closed"
    /\ UNCHANGED <<rlock, inbound, arrived, kpc, lpc, upc, gets, intervals, due, pings>>
    /\ UNCHANGED otherThanSock

NextSock ==
    \/ keep_alive_sleep
    \/ keep_alive_acquire
    \/ keep_alive_send
    \/ listen_acquire
    \/ listen_recv
    \/ get_packet
    \/ get_packet_acquire
    \/ get_packet_recv
    \/ frame_arrives
    \/ connection_closes

SpecSock == InitSock /\ [][NextSock]_vars

\* The threads run whenever they can take a step; nothing makes the server
\* send a frame.
SpecSockFair ==
    /\ SpecSock
    /\ WF_vars(keep_alive_acquire)
    /\ WF_vars(keep_alive_send)
    /\ WF_vars(listen_acquire)
    /\ WF_vars(listen_recv)
    /\ WF_vars(get_packet_acquire)
    /\ WF_vars(get_packet_recv)

\* C32: a keep-alive ping send and a receive on the socket are never in
\* progress at the same time, however keep_alive, _listen and other callers
\* of get_packet interleave.
C32_SendExcludesRecv ==
    /\ ~(kpc = "send" /\ (lpc = "recv" \/ upc = "recv"))
    /\ kpc = "send" => rlock = "keep_alive"
    /\ lpc = "recv" => rlock = "listener"
    /\ upc = "recv" => rlock = "caller"

C32_Witness ==
    /\ kpc = "send" /\ lpc = "acquire" /\ upc = "acquire"
    /\ pings = 1 /\ arrived = 1 /\ inbound = 0

\* C33: while the connection is open and the receive loop runs, every
\* elapsed keep-alive interval is eventually followed by a ping being sent,
\* also when no frame arrives from the server in the meantime.
C33_PingAfterInterval ==
    (due > 0 /\ sock = "open" /\ lpc # "stopped")
        ~> (due = 0 \/ sock # "open" \/ lpc = "stopped")

(***************************************************************************)
(* A dispatch of EventManager step by step: _emit (status.py:251-262)      *)
(* walks the live list of the event without taking wlock, while subscribe  *)
(* and unsubscribe (217-249, 264-274) are called by other threads or by    *)
(* the handler that is running.                                            *)
(***************************************************************************)
MaxRegCalls == 2
MaxDispFrames == 2

\* the handlers of the program that raise when they are called
Raising == {"g"}

Fns(list) == [i \in DOMAIN list |-> list[i].fn]

\* the frames the server sends: without payloads, with one or two payloads,
\* with a payload that has no update_reason
DispatchFrames ==
    {NoFrame,
     [has |-> TRUE, payloads |-> <<"e1">>],
     [has |-> TRUE, payloads |-> <<"e2", "e1">>],
     [has |-> TRUE, payloads |-> <<NoReason>>]}

\* (mutant) the frame is taken to have payloads whatever it holds
has_payloads_unchecked(fr) == TRUE

\* status.py:280: event.get("payloads") is not None
has_payloads(fr) == fr.has

\* status.py:264-274 behind enforce_types (annotations.py:37-44): the check of
\* the argument func, then the body; list.remove raises ValueError when func
\* is not in the list
unsubscribe(event, func, subs, keys) ==
    IF is_instance_of_raises(FuncParameter) THEN [out |-> "TypeError", subs |-> subs]
    ELSE IF event \notin keys THEN [out |-> "returned", subs |-> subs]
    ELSE IF func \notin Range(Fns(subs[event])) THEN [out |-> "ValueError", subs |-> subs]
    ELSE LET at == CHOOSE i \in DOMAIN subs[event] :
                      /\ subs[event][i].fn = func
                      /\ \A k \in 1..(i - 1) : subs[event][k].fn # func
         IN [out |-> "returned",
             subs |-> [subs EXCEPT ![event] =
                          SubSeq(@, 1, at - 1) \o SubSeq(@, at + 1, Len(@))]]

\* the handlers the program has under event after its first n calls, had
\* each call done what it is for: in the order of registration, each once
RECURSIVE Intended(_, _)
Intended(event, n) ==
    IF n = 0 THEN << >>
    ELSE LET c == regcalls[n]
             prev == Intended(event, n - 1)
         IN  IF c.event # event THEN prev
             ELSE IF c.op = "subscribe"
                  THEN IF c.func \in Range(prev) THEN prev ELSE Append(prev, c.func)
                  ELSE SelectSeq(prev, LAMBDA h : h # c.func)

InitDispatch ==
    /\ LoginBuilt("u@x", TRUE)
    /\ SolverBuilt(0)
    /\ RestoreBuilt("u@x", << >>)
    /\ HttpBuilt("Std", 0)
    /\ ClientBuilt(Undefined, Undefined)
    /\ LaterBuilt
    /\ EventManagerBuilt
    /\ EvBuilt

\* @em.subscribe(event) applied to func, by any thread at any time
Dispatch_subscribe ==
    /\ Len(regcalls) < MaxRegCalls
    /\ \E event \in Events, func \in Handlers :
          LET r == subscribe_then_decorate(event, func, registry, Len(regcalls) + 1)
          IN /\ regcalls' = Append(regcalls, [op |-> "subscribe", event |-> event,
                                              func |-> func, out |-> r.out])
             /\ registry' = r.subs
             /\ regkeys' = IF r.out = "TypeError" THEN regkeys ELSE regkeys \cup {event}
    /\ UNCHANGED <<lt, cur, nframes, dj, di, began, now_invoked, dlog>>
    /\ UNCHANGED otherThanDisp

\* em.unsubscribe(event, func), by any thread at any time
Dispatch_unsubscribe ==
    /\ Len(regcalls) < MaxRegCalls
    /\ \E event \in Events, func \in Handlers :
          LET r == unsubscribe(event, func, registry, regkeys)
          IN /\ regcalls' = Append(regcalls, [op |-> "unsubscribe", event |-> event,
                                              func |-> func, out |-> r.out])
             /\ registry' = r.subs
    /\ UNCHANGED <<regkeys, lt, cur, nframes, dj, di, began, now_invoked, dlog>>
    /\ UNCHANGED otherThanDisp

\* status.py:279-281: get_packet returns a frame; without payloads the loop
\* goes back to get_packet
listen_get_packet ==
    /\ lt = "recv"
    /\ nframes < MaxDispFrames
    /\ \E fr \in DispatchFrames :
          /\ cur' = fr
          /\ nframes' = nframes + 1
          /\ IF ~has_payloads(fr) THEN lt' = "recv" /\ dj' = 0
             ELSE IF ~fr.has THEN lt' = "KeyError" /\ dj' = 0    \* event["payloads"]
             ELSE lt' = "payloads" /\ dj' = 1
    /\ UNCHANGED <<registry, regkeys, regcalls, di, began, now_invoked, dlog>>
    /\ UNCHANGED otherThanDisp

\* what a dispatch that ended leaves in dlog
Dispatched(called, how) ==
    [frame |-> nframes, payload |-> dj, event |-> cur.payloads[dj],
     began |-> IF lt = "iter" THEN began ELSE Intended(cur.payloads[dj], Len(regcalls)),
     invoked |-> called, ended |-> how]

\* status.py:283-284 and 260-262, one step: the next payload of the frame and
\* the entry of _emit for it, or the next round of _emit's for loop over the
\* live list; an exception of the handler ends _listen
listen_dispatch ==
    /\ lt \in {"payloads", "iter"}
    /\ IF lt = "payloads"
       THEN IF dj > Len(cur.payloads)
            THEN lt' = "recv" /\ UNCHANGED <<dj, di, began, now_invoked, dlog>>
            ELSE IF cur.payloads[dj] = NoReason
            THEN lt' = "KeyError" /\ UNCHANGED <<dj, di, began, now_invoked, dlog>>
            ELSE IF cur.payloads[dj] \notin regkeys
            THEN /\ dlog' = Append(dlog, Dispatched(<< >>, "returned"))
                 /\ dj' = dj + 1
                 /\ UNCHANGED <<lt, di, began, now_invoked>>
            ELSE /\ lt' = "iter"
                 /\ di' = 1
                 /\ began' = Intended(cur.payloads[dj], Len(regcalls))
                 /\ now_invoked' = << >>
                 /\ UNCHANGED <<dj, dlog>>
       ELSE IF di > Len(registry[cur.payloads[dj]])
            THEN /\ dlog' = Append(dlog, Dispatched(now_invoked, "returned"))
                 /\ dj' = dj + 1
                 /\ lt' = "payloads"
                 /\ UNCHANGED <<di, began, now_invoked>>
            ELSE LET h == registry[cur.payloads[dj]][di].fn
                 IN  IF h \in Raising
                     THEN /\ dlog' = Append(dlog, Dispatched(Append(now_invoked, h),
                                                             "raised"))
                          /\ lt' = "handler exception"
                          /\ UNCHANGED <<dj, di, began, now_invoked>>
                     ELSE /\ now_invoked' = Append(now_invoked, h)
                          /\ di' = di + 1
                          /\ UNCHANGED <<lt, dj, began, dlog>>
    /\ UNCHANGED <<registry, regkeys, regcalls, cur, nframes>>
    /\ UNCHANGED otherThanDisp

NextDispatch ==
    \/ Dispatch_subscribe
    \/ Dispatch_unsubscribe
    \/ listen_get_packet
    \/ listen_dispatch

SpecDispatch == InitDispatch /\ [][NextDispatch]_vars

\* C34: a dispatch invokes exactly the handlers that were registered for the
\* event when it began, each once, whatever subscribe and unsubscribe calls
\* are made while it runs.
C34_DispatchSnapshot ==
    \A k \in DOMAIN dlog :
        dlog[k].ended = "returned" => dlog[k].invoked = dlog[k].began

\* C36: a frame without a payloads array invokes no handler, changes no
\* subscription and raises nothing, and the receive loop goes on to the next
\* frame.
C36_NoPayloadsIgnored ==
    [][(lt = "recv" /\ nframes' # nframes /\ ~cur'.has)
          => /\ lt' = "recv"
             /\ dlog' = dlog
             /\ registry' = registry /\ regkeys' = regkeys]_vars

C36_Witness ==
    /\ nframes = 2 /\ lt = "recv"
    /\ cur.payloads = <<"e2", "e1">>
    /\ Len(dlog) = 2 /\ dlog[1].frame = 2

C38_UnsubscribeRemoves ==
    (/\ regcalls # << >>
     /\ regcalls[Len(regcalls)].op = "unsubscribe"
     /\ regcalls[Len(regcalls)].func
           \in Range(Intended(regcalls[Len(regcalls)].event, Len(regcalls) - 1)))
        => /\ regcalls[Len(regcalls)].out = "returned"
           /\ \A e \in Events : Fns(registry[e]) = Intended(e, Len(regcalls))

(***************************************************************************)
(* renew_state statement by statement (status.py:48-50): three assignments *)
(* in a row, with no lock, on fields that other threads read.              *)
(***************************************************************************)
MaxRenewals == 3

\* the answers to connect_device's PUT: a failure, a body that is no JSON
\* object, or an object with or without the keys player_state and devices
RenewAnswers ==
    {[http |-> h, body |-> "none", player_state |-> FALSE, devices |-> FALSE] :
        h \in {"fail", "transport"}}
    \cup {[http |-> "ok", body |-> "none", player_state |-> FALSE, devices |-> FALSE]}
    \cup {[http |-> "ok", body |-> "mapping", player_state |-> ps, devices |-> d] :
             ps \in BOOLEAN, d \in BOOLEAN}

\* what self._device_dump[k] raises: TypeError on None, KeyError without the key
subscript_raises(r, has) ==
    IF r.body # "mapping" THEN "TypeError" ELSE IF ~has THEN "KeyError" ELSE "none"

InitRenew ==
    /\ LoginBuilt("u@x", TRUE)
    /\ SolverBuilt(0)
    /\ RestoreBuilt("u@x", << >>)
    /\ HttpBuilt("Std", 0)
    /\ ClientBuilt(Undefined, Undefined)
    /\ LaterBuilt
    /\ EventManagerBuilt
    /\ EvBuilt

\* a thread calls renew_state (through a property, or directly)
renew_state_call ==
    /\ rnpc = "idle"
    /\ renewals < MaxRenewals
    /\ renewals' = renewals + 1
    /\ rnpc' = "put"
    /\ rnout' = "running"
    /\ UNCHANGED <<_device_dump, _state, _devices, rnanswer, seen>>
    /\ UNCHANGED otherThanRenew

\* status.py:48: self._device_dump = self.connect_device()
renew_state_device_dump ==
    /\ rnpc = "put"
    /\ \E r \in RenewAnswers :
          /\ rnanswer' = r
          /\ IF connect_device(r) # "ok"
             THEN rnout' = connect_device(r) /\ rnpc' = "idle" /\ UNCHANGED _device_dump
             ELSE _device_dump' = renewals /\ rnpc' = "state" /\ UNCHANGED rnout
    /\ UNCHANGED <<_state, _devices, renewals, seen>>
    /\ UNCHANGED otherThanRenew

\* status.py:49: self._state = self._device_dump["player_state"]
renew_state_state ==
    /\ rnpc = "state"
    /\ IF subscript_raises(rnanswer, rnanswer.player_state) # "none"
       THEN /\ rnout' = subscript_raises(rnanswer, rnanswer.player_state)
            /\ rnpc' = "idle"
            /\ UNCHANGED _state
       ELSE _state' = renewals /\ rnpc' = "devices" /\ UNCHANGED rnout
    /\ UNCHANGED <<_device_dump, _devices, rnanswer, renewals, seen>>
    /\ UNCHANGED otherThanRenew

\* status.py:50: self._devices = self._device_dump["devices"], and the return
renew_state_devices ==
    /\ rnpc = "devices"
    /\ IF subscript_raises(rnanswer, rnanswer.devices) # "none"
       THEN rnout' = subscript_raises(rnanswer, rnanswer.devices) /\ UNCHANGED _devices
       ELSE _devices' = renewals /\ rnout' = "returned"
    /\ rnpc' = "idle"
    /\ UNCHANGED <<_device_dump, _state, rnanswer, renewals, seen>>
    /\ UNCHANGED otherThanRenew

\* another thread reads the cached fields (status.py:63-69, 98-104)
read_cached ==
    /\ seen' = <<_device_dump, _state, _devices>>
    /\ seen' # seen
    /\ UNCHANGED <<_device_dump, _state, _devices, rnpc, rnout, rnanswer, renewals>>
    /\ UNCHANGED otherThanRenew

NextRenew ==
    \/ renew_state_call
    \/ renew_state_device_dump
    \/ renew_state_state
    \/ renew_state_devices
    \/ read_cached

SpecRenew == InitRenew /\ [][NextRenew]_vars

\* C35: renew_state is all-or-nothing: once it has returned or raised, the
\* device dump, the player state and the devices come from one and the same
\* response, and no reader on another thread sees a mix.
C35_AllOrNothing ==
    /\ rnpc = "idle" => (_device_dump = _state /\ _state = _devices)
    /\ seen[1] = seen[2] /\ seen[2] = seen[3]

(***************************************************************************)
(* The client pool (public.py:22-69) and the Public operations that take   *)
(* their client from it (75-160), each run by one of several threads.      *)
(***************************************************************************)
MaxPoolOps == 3

\* (mutant) get hands out the oldest client and leaves it in the pool
popleft_keeps(q) == [obj |-> Head(q), rest |-> q]

\* public.py:41: self._queue.popleft()
popleft(q) == [obj |-> Head(q), rest |-> Tail(q)]

\* how an operation ends once it has its client: its generator is exhausted
\* or its value returned, or the requests of the wrapped object raise
OperationEnds == {"returned", "raised"}

InitPool ==
    /\ LoginBuilt("u@x", TRUE)
    /\ SolverBuilt(0)
    /\ RestoreBuilt("u@x", << >>)
    /\ HttpBuilt("Std", 0)
    /\ WsBuilt("WebsocketStreamer", None)
    /\ EvBuilt
    /\ ClientBuilt(Undefined, Undefined)
    /\ LaterBuilt

\* public.py:85 (99, 113, ...): a thread enters `with ClientContext()`
Public_operation ==
    /\ pool_ops < MaxPoolOps
    /\ \E t \in Threads :
          /\ ppc[t] = "idle"
          /\ ppc' = [ppc EXCEPT ![t] = "get"]
          /\ pout' = [pout EXCEPT ![t] = "running"]
          /\ pexc' = [pexc EXCEPT ![t] = FALSE]
    /\ pool_ops' = pool_ops + 1
    /\ UNCHANGED <<_queue, _lock, factory_calls, _client>>
    /\ UNCHANGED otherThanPool

\* public.py:39: get takes the lock
Pooler_get_lock ==
    /\ _lock = "free"
    /\ \E t \in Threads :
          /\ ppc[t] = "get"
          /\ _lock' = t
          /\ ppc' = [ppc EXCEPT ![t] = "in_get"]
    /\ UNCHANGED <<_queue, factory_calls, _client, pexc, pout, pool_ops>>
    /\ UNCHANGED otherThanPool

\* public.py:40-42 and 65-66: the oldest pooled client, or a new one from the
\* factory; the lock is released and ClientContext keeps the client
Pooler_get ==
    /\ \E t \in Threads :
          /\ ppc[t] = "in_get"
          /\ IF _queue # << >>
             THEN /\ _client' = [_client EXCEPT ![t] = popleft(_queue).obj]
                  /\ _queue' = popleft(_queue).rest
                  /\ UNCHANGED factory_calls
             ELSE /\ _client' = [_client EXCEPT ![t] = factory_calls + 1]
                  /\ factory_calls' = factory_calls + 1
                  /\ UNCHANGED _queue
          /\ ppc' = [ppc EXCEPT ![t] = "using"]
    /\ _lock' = "free"
    /\ UNCHANGED <<pexc, pout, pool_ops>>
    /\ UNCHANGED otherThanPool

\* public.py:86-87: the operation runs on its client and ends, by returning
\* or by an exception; either way the with statement calls __exit__
operation_ends ==
    /\ \E t \in Threads, e \in OperationEnds :
          /\ ppc[t] = "using"
          /\ pexc' = [pexc EXCEPT ![t] = (e = "raised")]
          /\ ppc' = [ppc EXCEPT ![t] = "exit"]
    /\ UNCHANGED <<_queue, _lock, factory_calls, _client, pout, pool_ops>>
    /\ UNCHANGED otherThanPool

\* public.py:68-69 into 46: __exit__ calls put, which takes the lock
Pooler_put_lock ==
    /\ _lock = "free"
    /\ \E t \in Threads :
          /\ ppc[t] = "exit"
          /\ _lock' = t
          /\ ppc' = [ppc EXCEPT ![t] = "in_put"]
    /\ UNCHANGED <<_queue, factory_calls, _client, pexc, pout, pool_ops>>
    /\ UNCHANGED otherThanPool

\* public.py:47: the client is appended to the pool and the lock released;
\* __exit__ returns None, so an exception of the operation goes on to the caller
Pooler_put ==
    /\ \E t \in Threads :
          /\ ppc[t] = "in_put"
          /\ _queue' = Append(_queue, _client[t])
          /\ _client' = [_client EXCEPT ![t] = 0]
          /\ pout' = [pout EXCEPT ![t] = IF pexc[t] THEN "raised" ELSE "returned"]
          /\ ppc' = [ppc EXCEPT ![t] = "idle"]
    /\ _lock' = "free"
    /\ UNCHANGED <<factory_calls, pexc, pool_ops>>
    /\ UNCHANGED otherThanPool

NextPool ==
    \/ Public_operation
    \/ Pooler_get_lock
    \/ Pooler_get
    \/ operation_ends
    \/ Pooler_put_lock
    \/ Pooler_put

SpecPool == InitPool /\ [][NextPool]_vars

\* the clients the threads have in hand
InHand == {_client[t] : t \in {u \in Threads : _client[u] # 0}}

\* C39: however get and put of several threads interleave, a client obtained
\* by get is handed to nobody else before it was put back, and every Public
\* operation has put its client back once it has ended, normally or by an
\* exception.
C39_ExclusiveUntilPut ==
    /\ \A t, u \in Threads : (t # u /\ _client[t] # 0) => _client[t] # _client[u]
    /\ \A t \in Threads : \A i \in DOMAIN _queue : _queue[i] # _client[t]
    /\ \A i, j \in DOMAIN _queue : _queue[i] = _queue[j] => i = j
    /\ \A t \in Threads : ppc[t] = "idle" => _client[t] = 0
    /\ Len(_queue) + Cardinality(InHand) = factory_calls

C39_Witness ==
    /\ pout["t1"] = "raised" /\ ppc["t1"] = "idle"
    /\ ppc["t2"] = "using" /\ _client["t2"] = 1
    /\ factory_calls = 2 /\ _queue = <<2>>

(***************************************************************************)
(* The solver instances and the client objects they send through.          *)
(* Capmonster.__init__ (capmonster.py:31-58) and Capsolver.__init__        *)
(* (capsolver.py:32-44) set the authenticate rule of their client;         *)
(* StdClient.request (request.py:78-88) applies the rule of the client.    *)
(***************************************************************************)
MaxInstances == 2
MaxBodies == 2

ApiKeys == {"key A", "key B"}
SolverClasses == {"Capmonster", "Capsolver"}
VendorRequests == {"createTask", "getTaskResult", "getBalance"}

\* (mutant) the rule of every client is that of the instance constructed last
auth_rule_of_latest(i) == instances[Len(instances)].api_key

\* request.py:81-82 with capmonster.py:58, 69-71 / capsolver.py:44, 47-48: the
\* client's authenticate is the lambda of the instance that set it last, and
\* that lambda writes the api_key of its own self
auth_rule_of(i) == instances[authenticate[instances[i].client]].api_key

InitKeys ==
    /\ LoginBuilt("u@x", TRUE)
    /\ SolverBuilt(0)
    /\ RestoreBuilt("u@x", << >>)
    /\ HttpBuilt("Std", 0)
    /\ WsBuilt("WebsocketStreamer", None)
    /\ EvBuilt
    /\ ClientBuilt(Undefined, Undefined)
    /\ LaterBuilt

\* Capmonster(api_key) / Capsolver(api_key), with the default client or with
\* a StdClient of the caller's own
Solver_new ==
    /\ Len(instances) < MaxInstances
    /\ \E cls \in SolverClasses, k \in ApiKeys, own \in BOOLEAN :
          LET n == Len(instances) + 1
              c == IF own THEN OwnClient(n) ELSE DefaultClient(cls)
          IN /\ instances' = Append(instances, [cls |-> cls, api_key |-> k, client |-> c])
             /\ authenticate' = [x \in DOMAIN authenticate \cup {c} |->
                                    IF x = c THEN n ELSE authenticate[x]]
    /\ UNCHANGED bodies
    /\ UNCHANGED otherThanKeys

\* capmonster.py:84, 141, 170 / capsolver.py:53, 97, 113: one request of an
\* instance, self.client.post(endpoint, authenticate=True, ...)
Solver_post ==
    /\ Len(bodies) < MaxBodies
    /\ \E i \in DOMAIN instances, req \in VendorRequests :
          bodies' = Append(bodies, [by |-> i, req |-> req, clientKey |-> auth_rule_of(i)])
    /\ UNCHANGED <<instances, authenticate>>
    /\ UNCHANGED otherThanKeys

NextKeys ==
    \/ Solver_new
    \/ Solver_post

SpecKeys == InitKeys /\ [][NextKeys]_vars

\* C40: every request body a solver instance sends carries the api_key of
\* that instance as clientKey, however many instances were constructed and
\* in whatever order, the ones with the default client included.
C40_OwnKey ==
    \A j \in DOMAIN bodies : bodies[j].clientKey = instances[bodies[j].by].api_key

\* the instance i shares its client object with no other instance
ClientOfItsOwn(i) ==
    \A k \in DOMAIN instances : instances[k].client = instances[i].client => k = i

\* C40, for the instances that can hold: an instance that shares its client
\* with no instance constructed so far sends its own api_key.
C40_OwnKeyOnOwnClient ==
    [][\A i \in DOMAIN instances :
          (/\ ClientOfItsOwn(i)
           /\ bodies' # bodies
           /\ bodies'[Len(bodies')].by = i)
             => bodies'[Len(bodies')].clientKey = instances[i].api_key]_vars

C40_Witness ==
    /\ Len(instances) = 2
    /\ instances[1].api_key = "key A" /\ instances[2].api_key = "key B"
    /\ instances[1].client = 1 /\ instances[2].client = 4
    /\ Len(bodies) = 2
    /\ bodies[1].by = 1 /\ bodies[1].clientKey = "key A"
    /\ bodies[2].by = 2 /\ bodies[2].clientKey = "key B"

====
